---------------------------- MODULE Spec2Model ----------------------------
(***************************************************************************)
(* Model of the structural-inference and relevance-ranking pipeline:       *)
(*   - OutlineExtractor._refine_heading_hierarchy, _extract_headings,      *)
(*     extract_outline and the loop of run_round1a   (round1a)             *)
(*   - RelevanceExtractor._create_refined_text, _calculate_keyword_        *)
(*     relevance, _rank_sections_by_relevance, _extract_section_content,   *)
(*     _extract_document_sections, extract_relevant_sections   (round1b)   *)
(*   - TextProcessor.is_likely_heading, clean_text, extract_keywords and   *)
(*     PDFProcessor.detect_document_title, load_pdf and close   (utils)    *)
(* Python lists are sequences, dicts are records, str is a sequence of     *)
(* one-character strings.  Font sizes are points as integers.              *)
(***************************************************************************)
EXTENDS Integers, Sequences, FiniteSets, TLC

VARIABLES
    op,         \* the last operation that ran ("init" before any)
    given,      \* the heading candidates as handed to _refine_heading_hierarchy
    headings,   \* the same list object, as the call leaves it (levels rewritten)
    outline,    \* the list returned by _refine_heading_hierarchy
    outline2,   \* the list returned when the function is run on its own output
    content,    \* _create_refined_text: the section content
    persona,    \* the persona string
    job_to_be_done,  \* the job string
    refined,    \* the string returned by _create_refined_text
    nlp,        \* TextProcessor.nlp: TRUE when the spaCy model was loaded
    query,      \* _calculate_keyword_relevance: the query string
    text,       \* the text string
    relevance,  \* the returned score, a fraction <<numerator, denominator>>
    sentence_model,  \* RelevanceExtractor.sentence_model: "none" or "loaded"
    sections,   \* _rank_sections_by_relevance: the list of sections passed in,
                \* as the call leaves it
    scored,     \* scored_sections as appended, before the sort
    ranked,     \* the list returned by _rank_sections_by_relevance
    pdf_files,  \* extract_relevant_sections: the documents passed in
    doc,        \* PDFProcessor.doc: "none" or the name of the document it holds
    result,     \* the dict returned by extract_relevant_sections
    encoded,    \* what the encoder calls of the ranking gave, one per section
    span,       \* is_likely_heading: the span's text and font size
    average,    \* the avg_font_size argument, a fraction <<sum, count>>
    likely,     \* the value is_likely_heading returned
    the_page,   \* _extract_document_sections: the page of one loop iteration
    the_page_num,    \* its index
    the_headings,    \* what _find_headings_in_page returned for it
    the_sections,    \* the sections the iteration appended
    the_page_text,   \* _extract_section_content: the page's plain text
    the_heading,     \* the heading text searched for
    the_content,     \* the returned content
    position,   \* run_round1a: how many files the loop has gone through
    attempted,  \* the names of the files it called extract_outline for
    saved,      \* the output files completely written, name and result
    unwritable, \* the stems of the output files that cannot be written
    stage       \* where the extractor's call for one document stands: "idle"
                \* before any, "loaded" inside its try block, then "returned"
                \* or "raised"

refineVars == <<given, headings, outline, outline2>>
summaryVars == <<content, persona, job_to_be_done, refined>>
keywordVars == <<nlp, query, text, relevance>>
rankVars == <<sentence_model, sections, scored, ranked, encoded>>
extractVars == <<pdf_files, doc, result>>
classifyVars == <<span, average, likely>>
segmentVars == <<the_page, the_page_num, the_headings, the_sections>>
contentVars == <<the_page_text, the_heading, the_content>>
round1aVars == <<position, attempted, saved, unwritable, stage>>

vars == <<op, given, headings, outline, outline2,
          content, persona, job_to_be_done, refined,
          nlp, query, text, relevance,
          sentence_model, sections, scored, ranked,
          pdf_files, doc, result, encoded,
          span, average, likely,
          the_page, the_page_num, the_headings, the_sections,
          the_page_text, the_heading, the_content,
          position, attempted, saved, unwritable, stage>>

\* what the actions of one part leave alone
unitVars == <<classifyVars, segmentVars, contentVars>>
notRefine == <<summaryVars, keywordVars, rankVars, extractVars, unitVars, round1aVars>>
notSummary == <<refineVars, keywordVars, rankVars, extractVars, unitVars, round1aVars>>
notKeyword == <<refineVars, summaryVars, rankVars, extractVars, unitVars, round1aVars>>
notRank == <<refineVars, content, refined, query, text, relevance, extractVars,
             unitVars, round1aVars>>
notExtract == <<refineVars, content, refined, query, text, relevance,
                unitVars, round1aVars>>
notClassify == <<refineVars, summaryVars, keywordVars, rankVars, extractVars,
                 segmentVars, contentVars, round1aVars>>
notSegment == <<refineVars, summaryVars, keywordVars, rankVars, extractVars,
                classifyVars, contentVars, round1aVars>>
notContent == <<refineVars, summaryVars, keywordVars, rankVars, extractVars,
                classifyVars, segmentVars, round1aVars>>
notRound1a == <<refineVars, summaryVars, keywordVars, rankVars, result, unitVars>>

-----------------------------------------------------------------------------
(* Generic helpers for Python built-ins *)

Min(a, b) == IF a <= b THEN a ELSE b

\* s[:n]
Take(s, n) == SubSeq(s, 1, Min(n, Len(s)))

\* sorted(S, reverse=True) of a set of numbers
RECURSIVE SortedDesc(_)
SortedDesc(S) ==
    IF S = {} THEN <<>>
    ELSE LET m == CHOOSE x \in S : \A y \in S : y <= x
         IN  <<m>> \o SortedDesc(S \ {m})

-----------------------------------------------------------------------------
(* Round 1A: OutlineExtractor._refine_heading_hierarchy *)

\* the cap of line 132
MaxHeadings == 50

\* bounds of the model
MaxShort == 2      \* exhaustive candidate lists up to this length
LongExtra == 2     \* patterned lists up to MaxHeadings + LongExtra entries
MaxPage == 2       \* pages of the exhaustive lists are 1..MaxPage

Levels == {"H1", "H2", "H3"}
FontSizes == {12, 14, 16}    \* sizes of the exhaustive lists
BigFont == 18                \* a size above all of FontSizes (patterned lists)
Texts == {"a", "b"}

\* level of a font size under the mapping built from the sorted distinct sizes
\* (lines 108-115 and the .get(..., "H3") of line 120)
FontToLevelSkewed(unique, fs) ==
    LET mapped == {i \in 1..Min(3, Len(unique)) : unique[i] = fs}
    IN  IF mapped = {} THEN "H3"
        ELSE LET i == CHOOSE j \in mapped : TRUE
             IN  IF i = 1 THEN "H1" ELSE "H2"

FontToLevel(unique, fs) ==
    LET mapped == {i \in 1..Min(3, Len(unique)) : unique[i] = fs}
    IN  IF mapped = {} THEN "H3"
        ELSE LET i == CHOOSE j \in mapped : TRUE
             IN  IF i = 1 THEN "H1" ELSE IF i = 2 THEN "H2" ELSE "H3"

\* line 105
UniqueFontSizes(hs) == SortedDesc({hs[i].font_size : i \in DOMAIN hs})

\* list.sort(key=lambda x: x["page"]): ascending by page, and stable, so the
\* entries of one page stay in list order; computed page by page
RECURSIVE PageRuns(_, _)
PageRuns(s, pages) ==
    IF pages = {} THEN <<>>
    ELSE LET p == CHOOSE x \in pages : \A y \in pages : x <= y
         IN  SelectSeq(s, LAMBDA e : e.page = p) \o PageRuns(s, pages \ {p})

Reverse(s) == [i \in 1..Len(s) |-> s[Len(s) + 1 - i]]

\* ascending by page, the entries of one page in reverse list order
SortByPageUnstable(s) == PageRuns(Reverse(s), {s[i].page : i \in DOMAIN s})

SortByPage(s) == PageRuns(s, {s[i].page : i \in DOMAIN s})

RefinedHeadingsKeepFont(hs) ==
    LET unique == SortedDesc({hs[i].font_size : i \in DOMAIN hs})
    IN  [i \in DOMAIN hs |->
            [level     |-> FontToLevel(unique, hs[i].font_size),
             text      |-> hs[i].text,
             page      |-> hs[i].page,
             font_size |-> hs[i].font_size]]

\* lines 117-126: the entries appended to refined_headings, in input order
RefinedHeadings(hs) ==
    LET unique == UniqueFontSizes(hs)
    IN  [i \in DOMAIN hs |->
            [level |-> FontToLevel(unique, hs[i].font_size),
             text  |-> hs[i].text,
             page  |-> hs[i].page]]

\* line 120: heading["level"] is assigned on the caller's dicts
RelevelledInput(hs) ==
    LET unique == UniqueFontSizes(hs)
    IN  [i \in DOMAIN hs |->
            [hs[i] EXCEPT !.level = FontToLevel(unique, hs[i].font_size)]]

CapNone(s) == s

\* line 132
Cap(s) == Take(s, MaxHeadings)

\* the levels given after the sort and the cap, from the kept candidates only
refine_heading_hierarchy_cap_first(hs) ==
    IF hs = <<>> THEN <<>>
    ELSE RefinedHeadings(Cap(SortByPage(hs)))

\* the returned list
refine_heading_hierarchy(hs) ==
    IF hs = <<>> THEN <<>>
    ELSE Cap(SortByPage(RefinedHeadings(hs)))

\* the input dicts after the call: untouched on the early return of line 102
HeadingsAfterRefine(hs) ==
    IF hs = <<>> THEN <<>> ELSE RelevelledInput(hs)

\* for each returned entry, the index of the candidate it was built from
\* (the same sort and cap applied to the candidates' positions)
OriginOrder(hs) ==
    IF hs = <<>> THEN <<>>
    ELSE LET tagged == [i \in DOMAIN hs |-> [idx |-> i, page |-> hs[i].page]]
             kept   == Cap(SortByPage(tagged))
         IN  [k \in DOMAIN kept |-> kept[k].idx]

\* the returned entries with the font size of their candidate put back
Reattach(out, hs) ==
    LET origin == OriginOrder(hs)
    IN  [k \in DOMAIN out |->
            [level     |-> out[k].level,
             text      |-> out[k].text,
             page      |-> out[k].page,
             font_size |-> hs[origin[k]].font_size]]

(* Inputs of the Round 1A specification *)

\* every candidate list of length <= MaxShort; lv is the level the
\* candidates carry on input (from classify_heading_level)
ShortHeadings ==
    UNION {[1..n -> [level: {"H1", "H3"}, text: Texts, page: 1..MaxPage,
                     font_size: FontSizes]] : n \in 0..MaxShort}

PagePatterns == {"asc", "desc", "same", "alt"}
FontPatterns == {"same", "lastbig", "firstbig", "cycle", "lasttwo"}

PageAt(pp, i, n) ==
    CASE pp = "asc"  -> ((i - 1) \div 20) + 1
      [] pp = "desc" -> ((n - i) \div 20) + 1
      [] pp = "same" -> 1
      [] pp = "alt"  -> (i % 3) + 1

FontAt(fp, i, n) ==
    CASE fp = "same"     -> 14
      [] fp = "lastbig"  -> IF i = n THEN BigFont ELSE 14
      [] fp = "firstbig" -> IF i = 1 THEN BigFont ELSE 14
      [] fp = "cycle"    -> 12 + 2 * (i % 4)
      [] fp = "lasttwo"  -> IF i = n THEN BigFont ELSE IF i = n - 1 THEN 16 ELSE 12

LongHeadings ==
    {[i \in 1..n |->
        [level     |-> IF i % 2 = 0 THEN "H1" ELSE "H3",
         text      |-> IF i % 3 = 0 THEN "a" ELSE "b",
         page      |-> PageAt(pp, i, n),
         font_size |-> FontAt(fp, i, n)]] :
     n \in (MaxHeadings - 1)..(MaxHeadings + LongExtra),
     pp \in PagePatterns, fp \in FontPatterns}

\* the state of the parts that a specification does not exercise
RefineIdle == given = <<>> /\ headings = <<>> /\ outline = <<>> /\ outline2 = <<>>
SummaryIdle ==
    content = <<>> /\ persona = <<>> /\ job_to_be_done = <<>> /\ refined = <<>>
KeywordIdle ==
    nlp = TRUE /\ query = <<>> /\ text = <<>> /\ relevance = <<0, 1>>
RankIdle ==
    /\ sentence_model = "none"
    /\ sections = <<>> /\ scored = <<>> /\ ranked = <<>> /\ encoded = <<>>
NoResult == [metadata |-> <<>>, extracted_sections |-> <<>>, sub_section_analysis |-> <<>>]
ExtractIdle == pdf_files = <<>> /\ doc = "none" /\ result = NoResult
ClassifyIdle ==
    span = [text |-> <<>>, font_size |-> 0] /\ average = <<0, 1>> /\ likely = FALSE
SegmentIdle ==
    /\ the_page = [spans |-> <<>>, plain |-> <<>>] /\ the_page_num = 0
    /\ the_headings = <<>> /\ the_sections = <<>>
ContentIdle == the_page_text = <<>> /\ the_heading = <<>> /\ the_content = <<>>
UnitIdle == ClassifyIdle /\ SegmentIdle /\ ContentIdle
Round1aIdle ==
    position = 0 /\ attempted = <<>> /\ saved = <<>> /\ unwritable = {} /\ stage = "idle"

InitRefine ==
    /\ op = "init"
    /\ given \in ShortHeadings \cup LongHeadings
    /\ headings = given
    /\ outline = <<>>
    /\ outline2 = <<>>
    /\ SummaryIdle
    /\ KeywordIdle
    /\ RankIdle
    /\ ExtractIdle
    /\ UnitIdle
    /\ Round1aIdle

\* one call of _refine_heading_hierarchy(headings)
Refine ==
    /\ op = "init"
    /\ op' = "refine"
    /\ outline' = refine_heading_hierarchy(headings)
    /\ headings' = HeadingsAfterRefine(headings)
    /\ UNCHANGED <<given, outline2>>
    /\ UNCHANGED notRefine

\* a second call, on the returned entries with their font sizes re-attached
Rerun ==
    /\ op = "refine"
    /\ op' = "rerun"
    /\ outline2' = refine_heading_hierarchy(Reattach(outline, given))
    /\ UNCHANGED <<given, headings, outline>>
    /\ UNCHANGED notRefine

NextRefine == Refine \/ Rerun

SpecRefine == InitRefine /\ [][NextRefine]_vars

-----------------------------------------------------------------------------
(* Round 1B: RelevanceExtractor._create_refined_text *)
(* A str is a sequence of one-character strings. *)

Whitespace == {" ", "\n"}

\* str.lower() on the characters of the model
LowerChar(c) ==
    CASE c = "A" -> "a"
      [] c = "P" -> "p"
      [] c = "J" -> "j"
      [] c = "T" -> "t"
      [] OTHER -> c

Lower(s) == [i \in DOMAIN s |-> LowerChar(s[i])]

\* str.strip()
RECURSIVE LStrip(_)
LStrip(s) == IF s # <<>> /\ Head(s) \in Whitespace THEN LStrip(Tail(s)) ELSE s

RECURSIVE RStrip(_)
RStrip(s) ==
    IF s # <<>> /\ s[Len(s)] \in Whitespace
    THEN RStrip(SubSeq(s, 1, Len(s) - 1))
    ELSE s

Strip(s) == RStrip(LStrip(s))

\* needle in hay
Contains(needle, hay) ==
    \E i \in 0..(Len(hay) - Len(needle)) :
        SubSeq(hay, i + 1, i + Len(needle)) = needle

\* s.split('.'): the pieces between the dots, one more than there are dots
RECURSIVE SplitFrom(_, _, _)
SplitFrom(s, start, dots) ==
    IF dots = {} THEN <<SubSeq(s, start, Len(s))>>
    ELSE LET d == CHOOSE x \in dots : \A y \in dots : x <= y
         IN  <<SubSeq(s, start, d - 1)>> \o SplitFrom(s, d + 1, dots \ {d})

SplitDots(s) == SplitFrom(s, 1, {i \in DOMAIN s : s[i] = "."})

\* sep.join(parts)
RECURSIVE Join(_, _)
Join(parts, sep) ==
    IF parts = <<>> THEN <<>>
    ELSE IF Len(parts) = 1 THEN parts[1]
    ELSE parts[1] \o sep \o Join(Tail(parts), sep)

\* the numbers of lines 288, 290, 298, 301 and 304
SentenceWindow == 5
MinSentenceLen == 20
FallbackWindow == 2
MaxSentences == 3
MaxRefinedLen == 300

Ellipsis == <<".", ".", ".">>

\* line 290
LongEnough(sentence) == Len(sentence) > MinSentenceLen

\* lines 292-293: any(keyword.lower() in sentence.lower() ...)
MentionsKeyword(sentence, p, j) ==
    \E keyword \in {p, j} : Contains(Lower(keyword), Lower(sentence))

RelevantSentencesAnywhere(sentences, p, j) ==
    SelectSeq([k \in 1..Len(sentences) |-> Strip(sentences[k])],
              LAMBDA sentence : LongEnough(sentence) /\ MentionsKeyword(sentence, p, j))

\* lines 288-294
RelevantSentences(sentences, p, j) ==
    SelectSeq([k \in 1..Min(SentenceWindow, Len(sentences)) |-> Strip(sentences[k])],
              LAMBDA sentence : LongEnough(sentence) /\ MentionsKeyword(sentence, p, j))

FallbackSentencesWide(sentences) ==
    SelectSeq([k \in 1..Min(SentenceWindow, Len(sentences)) |-> Strip(sentences[k])],
              LAMBDA sentence : Len(sentence) > MinSentenceLen)

\* line 298
FallbackSentences(sentences) ==
    SelectSeq([k \in 1..Min(FallbackWindow, Len(sentences)) |-> Strip(sentences[k])],
              LAMBDA sentence : Len(sentence) > MinSentenceLen)

LimitLengthLate(r) ==
    IF Len(r) > MaxRefinedLen + 3 THEN SubSeq(r, 1, MaxRefinedLen) \o Ellipsis ELSE r

\* lines 304-305
LimitLength(r) ==
    IF Len(r) > MaxRefinedLen THEN SubSeq(r, 1, MaxRefinedLen) \o Ellipsis ELSE r

\* lines 277-307
create_refined_text(c, p, j) ==
    IF c = <<>> THEN <<>>
    ELSE LET sentences == SplitDots(c)
             relevant  == RelevantSentences(sentences, p, j)
             kept      == IF relevant = <<>> THEN FallbackSentences(sentences)
                          ELSE relevant
         IN  LimitLength(Join(Take(kept, MaxSentences), <<".", " ">>))

(* Inputs of the summarizer specification *)

MaxFrags == 3    \* contents are made of up to this many '.'-separated pieces

Rep(c, n) == [i \in 1..n |-> c]

\* the pieces contents are made of: empty, short, at and just above the
\* length threshold, padded with blanks, mentioning the persona or the job
\* in another case, and long ones around the 300 limit
Pieces ==
    { <<>>,
      Rep("a", 5),
      Rep("a", MinSentenceLen),
      <<" ">> \o Rep("a", MinSentenceLen + 1) \o <<"\n">>,
      Rep(" ", MinSentenceLen + 5),
      <<"p", "A">> \o Rep("a", MinSentenceLen),
      <<" ", "j">> \o Rep("a", 98),
      Rep("a", 100),
      Rep("a", MaxRefinedLen),
      Rep("a", MaxRefinedLen + 1) }

Contents ==
    {<<>>} \cup
    {Join(f, <<".">>) : f \in UNION {[1..n -> Pieces] : n \in 1..MaxFrags}}

FragsExtra == 2  \* patterned contents have up to SentenceWindow + FragsExtra pieces

\* one letter per position, so that the pieces of a patterned content differ
PositionLetters == <<"a", "e", "g", "h", "i", "s", "t", "x", "y">>

\* the piece at position k of a patterned content: too short, long enough
\* without naming the job, or long enough and naming the job in lower case
PieceAt(k, kind) ==
    CASE kind = "short"  -> Rep(PositionLetters[k], 5)
      [] kind = "plain"  -> Rep(PositionLetters[k], MinSentenceLen + 1)
      [] kind = "naming" -> <<" ", "j">> \o Rep(PositionLetters[k], MinSentenceLen)

PieceKinds == {"short", "plain", "naming"}

\* contents of SentenceWindow to SentenceWindow + FragsExtra pieces
ManyPieceContents ==
    {Join([k \in DOMAIN kinds |-> PieceAt(k, kinds[k])], <<".">>) :
        kinds \in UNION {[1..n -> PieceKinds] :
                            n \in SentenceWindow..(SentenceWindow + FragsExtra)}}

Personas == {<<"P", "a">>, <<>>, <<"q">>}
Jobs == {<<"J">>}

InitSummary ==
    /\ op = "init"
    /\ content \in Contents \cup ManyPieceContents
    /\ persona \in Personas
    /\ job_to_be_done \in Jobs
    /\ refined = <<>>
    /\ RefineIdle
    /\ KeywordIdle
    /\ RankIdle
    /\ ExtractIdle
    /\ UnitIdle
    /\ Round1aIdle

\* one call of _create_refined_text(content, persona, job_to_be_done)
CreateRefinedText ==
    /\ op = "init"
    /\ op' = "summary"
    /\ refined' = create_refined_text(content, persona, job_to_be_done)
    /\ UNCHANGED <<content, persona, job_to_be_done>>
    /\ UNCHANGED notSummary

NextSummary == CreateRefinedText

SpecSummary == InitSummary /\ [][NextSummary]_vars

-----------------------------------------------------------------------------
(* TextProcessor.extract_keywords and *)
(* RelevanceExtractor._calculate_keyword_relevance *)

\* the numbers of lines 92 and 105 of text_utils.py
MaxKeywords == 10
MinTokenLen == 2

LowerLetters == {"a", "e", "g", "h", "i", "j", "p", "q", "s", "t", "x", "y"}
Digits == {"0", "1", "2", "3", "4", "5", "6", "7", "8", "9"}
UpperLetters == {"A", "P", "J", "T"}
Punctuation == {".", ",", ":"}

\* the tokens self.nlp(text) yields: the runs of characters between blanks
\* and punctuation marks (blank and punctuation tokens are never alphabetic,
\* so extract_keywords drops them in any case)
Tokens(s) ==
    SelectSeq(SplitFrom(s, 1, {i \in DOMAIN s : s[i] \in Whitespace \cup Punctuation}),
              LAMBDA w : w # <<>>)

\* token.is_alpha
IsAlpha(w) == \A i \in DOMAIN w : w[i] \in LowerLetters \cup UpperLetters

\* token.is_stop: the stop words of the model's vocabulary
StopWords == {<<"t", "h", "e">>, <<"i", "s">>}
IsStop(w) == Lower(w) \in StopWords

\* token.lemma_: a plural loses its final s
Lemma(w) ==
    IF Len(w) > 3 /\ w[Len(w)] = "s" THEN SubSeq(w, 1, Len(w) - 1) ELSE w

\* lines 100-106: the lemmas of the meaningful tokens, in text order
KeywordList(s) ==
    LET kept == SelectSeq(Tokens(s),
                          LAMBDA w : IsAlpha(w) /\ ~IsStop(w) /\ Len(w) > MinTokenLen)
    IN  [k \in DOMAIN kept |-> Lower(Lemma(kept[k]))]

\* Counter(keywords).most_common(n): by count, largest first, equal counts
\* in order of first occurrence
RECURSIVE CountRuns(_, _, _)
CountRuns(firsts, kws, counts) ==
    IF counts = {} THEN <<>>
    ELSE LET c == CHOOSE x \in counts : \A y \in counts : y <= x
             Count(w) == Cardinality({i \in DOMAIN kws : kws[i] = w})
         IN  SelectSeq(firsts, LAMBDA w : Count(w) = c)
                 \o CountRuns(firsts, kws, counts \ {c})

MostCommon(kws, n) ==
    LET firstIdx == {i \in DOMAIN kws : \A j \in 1..(i - 1) : kws[j] # kws[i]}
        firsts   == SelectSeq([i \in DOMAIN kws |->
                                  IF i \in firstIdx THEN kws[i] ELSE <<>>],
                              LAMBDA w : w # <<>>)
        counts   == {Cardinality({i \in DOMAIN kws : kws[i] = w}) :
                        w \in {kws[i] : i \in DOMAIN kws}}
    IN  Take(CountRuns(firsts, kws, counts), n)

\* lines 92-112
extract_keywords(hasNlp, s) ==
    IF ~hasNlp \/ s = <<>> THEN <<>>
    ELSE MostCommon(KeywordList(s), MaxKeywords)

\* set(list)
ToSet(l) == {l[i] : i \in DOMAIN l}

\* a / b as a float, kept as the fraction in lowest terms
RECURSIVE Gcd(_, _)
Gcd(a, b) == IF b = 0 THEN a ELSE Gcd(b, a % b)

Fraction(a, b) == <<a \div Gcd(a, b), b \div Gcd(a, b)>>

Zero == <<0, 1>>

\* the sizes of the two sets added up in place of the size of their union
JaccardOverSum(q, t) ==
    IF Cardinality(q) + Cardinality(t) > 0
    THEN Fraction(Cardinality(q \cap t), Cardinality(q) + Cardinality(t))
    ELSE Zero

JaccardOverQuery(q, t) ==
    IF q \cup t = {} THEN Zero
    ELSE Fraction(Cardinality(q \cap t), Cardinality(q))

\* lines 251-255
Jaccard(q, t) ==
    IF Cardinality(q \cup t) > 0
    THEN Fraction(Cardinality(q \cap t), Cardinality(q \cup t))
    ELSE Zero

\* lines 239-255
calculate_keyword_relevance(hasNlp, q, t) ==
    IF q = <<>> \/ t = <<>> THEN Zero
    ELSE LET query_keywords == ToSet(extract_keywords(hasNlp, Lower(q)))
             text_keywords  == ToSet(extract_keywords(hasNlp, Lower(t)))
         IN  IF query_keywords = {} THEN Zero
             ELSE Jaccard(query_keywords, text_keywords)

(* Inputs of the keyword specification *)

MaxWords == 2     \* exhaustive strings have up to this many words
ManyExtra == 2    \* patterned texts have up to MaxKeywords + ManyExtra keywords

\* the, ai, pay, pays, Tax, q3, jet
Vocabulary ==
    { <<"t", "h", "e">>, <<"a", "i">>, <<"p", "a", "y">>, <<"p", "a", "y", "s">>,
      <<"T", "a", "x">>, <<"q", "3">>, <<"j", "e", "t">> }

\* the words of a list separated by single blanks
Sentence(words) == Join(words, <<" ">>)

ShortStrings ==
    {Sentence(ws) : ws \in UNION {[1..n -> Vocabulary] : n \in 0..MaxWords}}
        \cup {<<" ">>, <<"p", "a", "y", ".", " ", "j", "e", "t", ":">>}

\* n distinct keywords aaa, aaaa, ... followed by the word w
ManyKeywords(n, w) == Sentence([k \in 1..n |-> Rep("a", k + 2)] \o <<w>>)

ManyStrings ==
    {ManyKeywords(n, w) : n \in (MaxKeywords - 1)..(MaxKeywords + ManyExtra),
                           w \in {<<"p", "a", "y">>, <<"a", "a", "a">>}}

InitKeyword ==
    /\ op = "init"
    /\ nlp \in BOOLEAN
    /\ query \in ShortStrings \cup ManyStrings
    /\ text \in ShortStrings \cup ManyStrings
    /\ relevance = Zero
    /\ RefineIdle
    /\ SummaryIdle
    /\ RankIdle
    /\ ExtractIdle
    /\ UnitIdle
    /\ Round1aIdle

\* one call of _calculate_keyword_relevance(query, text)
CalculateKeywordRelevance ==
    /\ op = "init"
    /\ op' = "keyword"
    /\ relevance' = calculate_keyword_relevance(nlp, query, text)
    /\ UNCHANGED <<nlp, query, text>>
    /\ UNCHANGED notKeyword

NextKeyword == CalculateKeywordRelevance

SpecKeyword == InitKeyword /\ [][NextKeyword]_vars

-----------------------------------------------------------------------------
(* RelevanceExtractor._calculate_semantic_relevance and *)
(* RelevanceExtractor._rank_sections_by_relevance *)

\* a < b for fractions with positive denominators
Less(a, b) == a[1] * b[2] < b[1] * a[2]

\* What one pair of sentence_model.encode calls and the cosine can give:
\* a similarity in [-1, 1], or an exception.
Cosines == {<<-1, 2>>, <<1, 2>>}
Outcomes == [ok : {TRUE}, value : Cosines] \cup [ok : {FALSE}, value : {Zero}]

\* the handler returning 0.0 in place of the keyword score
calculate_semantic_relevance_or_zero(outcome, hasNlp, q, t) ==
    IF outcome.ok THEN outcome.value ELSE Zero

\* lines 221-237
calculate_semantic_relevance(outcome, hasNlp, q, t) ==
    IF outcome.ok THEN outcome.value
    ELSE calculate_keyword_relevance(hasNlp, q, t)

\* line 193
Query(p, j) == p \o <<" ">> \o j

\* lines 198-210: the score of one section
RelevanceScore(section, model, outcome, hasNlp, p, j) ==
    LET combined_text == section.title \o <<" ">> \o section.content
    IN  IF model = "loaded"
        THEN calculate_semantic_relevance(outcome, hasNlp, Query(p, j), combined_text)
        ELSE calculate_keyword_relevance(hasNlp, Query(p, j), combined_text)

\* lines 195-214: the scored copies, in input order
ScoredSections(secs, model, enc, hasNlp, p, j) ==
    [i \in DOMAIN secs |->
        [document        |-> secs[i].document,
         page            |-> secs[i].page,
         title           |-> secs[i].title,
         content         |-> secs[i].content,
         heading_level   |-> secs[i].heading_level,
         relevance_score |-> RelevanceScore(secs[i], model, enc[i], hasNlp, p, j)]]

\* the score written to the dict of the input list itself
SectionAfterScoringAliased(section, score) ==
    [document        |-> section.document,
     page            |-> section.page,
     title           |-> section.title,
     content         |-> section.content,
     heading_level   |-> section.heading_level,
     relevance_score |-> score]

\* lines 211-213: a dict of the input list after its loop iteration;
\* section.copy() is a new dict and the score is set on that one
SectionAfterScoring(section, score) == section

\* the input list after the call: the loop replaces none of its entries and
\* the sort of line 217 is on scored_sections, another list
SectionsAfterRank(secs, model, enc, hasNlp, p, j) ==
    [i \in DOMAIN secs |->
        SectionAfterScoring(secs[i],
                            RelevanceScore(secs[i], model, enc[i], hasNlp, p, j))]

\* list.sort(key=relevance_score, reverse=True): by score, largest first,
\* and stable, so equal scores stay in list order; computed score by score
RECURSIVE ScoreRuns(_, _)
ScoreRuns(s, scores) ==
    IF scores = {} THEN <<>>
    ELSE LET m == CHOOSE x \in scores : \A y \in scores : ~Less(x, y)
         IN  SelectSeq(s, LAMBDA e : e.relevance_score = m)
                 \o ScoreRuns(s, scores \ {m})

\* by score, largest first, equal scores in reverse list order
SortByScoreReversed(s) ==
    ScoreRuns(Reverse(s), {s[i].relevance_score : i \in DOMAIN s})

\* line 217
SortByScore(s) == ScoreRuns(s, {s[i].relevance_score : i \in DOMAIN s})

\* lines 187-219
rank_sections_by_relevance(secs, model, enc, hasNlp, p, j) ==
    IF secs = <<>> THEN <<>>
    ELSE SortByScore(ScoredSections(secs, model, enc, hasNlp, p, j))

(* Inputs of the ranking specification *)

\* the cuts of lines 85 and 67/261
TopSections == 20
TopAnalysis == 10

MaxSections == 3   \* exhaustive section lists up to this length
RankExtra == 2     \* patterned lists reach this many sections past each cut

W_pay == <<"p", "a", "y">>
W_tax == <<"t", "a", "x">>
W_jet == <<"j", "e", "t">>

\* sections with keyword scores 1, 1, 1/3 and 1/2 for the query "pay tax"
SectionPool ==
    { [document |-> "a.pdf", page |-> 1, heading_level |-> "H2",
       title |-> <<"T", "a", "x">>, content |-> Sentence(<<W_pay, <<"t", "h", "e">>, W_tax>>)],
      [document |-> "b.pdf", page |-> 2, heading_level |-> "H2",
       title |-> W_pay, content |-> <<"T", "a", "x", ".">>],
      [document |-> "a.pdf", page |-> 2, heading_level |-> "content",
       title |-> W_jet, content |-> Sentence(<<W_jet, W_pay>>)],
      [document |-> "b.pdf", page |-> 1, heading_level |-> "H2",
       title |-> <<"p", "a", "y", "s">>, content |-> <<>>] }

ShortSectionLists == UNION {[1..n -> SectionPool] : n \in 0..MaxSections}

\* n sections, each on its own page, cycling through four contents
LongSections(n) ==
    [i \in 1..n |->
        [document |-> IF i % 2 = 0 THEN "a.pdf" ELSE "b.pdf",
         page |-> i,
         heading_level |-> "H2",
         title |-> IF i % 4 = 0 THEN W_jet ELSE W_pay,
         content |-> CASE i % 3 = 0 -> Sentence(<<W_jet, W_tax>>)
                       [] i % 3 = 1 -> <<>>
                       [] OTHER -> Sentence(<<W_tax, W_pay, W_jet>>)]]

LongLengths ==
    ((TopAnalysis - 1)..(TopAnalysis + RankExtra))
        \cup ((TopSections - 1)..(TopSections + RankExtra))

SectionLists == ShortSectionLists \cup {LongSections(n) : n \in LongLengths}

Failed == [ok |-> FALSE, value |-> Zero]

\* the outcomes of the encoder calls made while n sections are scored: every
\* combination for a short list, three patterns for a long one, and none
\* that matters when no sentence model is loaded
EncoderRuns(n, model) ==
    IF model = "none" THEN {[i \in 1..n |-> Failed]}
    ELSE IF n <= MaxSections THEN [1..n -> Outcomes]
    ELSE { [i \in 1..n |-> Failed],
           [i \in 1..n |-> [ok |-> TRUE, value |-> <<1, 2>>]],
           [i \in 1..n |-> CASE i % 3 = 0 -> Failed
                              [] i % 3 = 1 -> [ok |-> TRUE, value |-> <<1, 2>>]
                              [] OTHER -> [ok |-> TRUE, value |-> <<-1, 2>>]] }

RankPersonas == {W_pay, <<>>}
RankJobs == {W_tax}

InitRank ==
    /\ op = "init"
    /\ sentence_model \in {"none", "loaded"}
    /\ nlp \in BOOLEAN
    /\ persona \in RankPersonas
    /\ job_to_be_done \in RankJobs
    /\ sections \in SectionLists
    /\ scored = <<>>
    /\ ranked = <<>>
    /\ encoded = <<>>
    /\ content = <<>> /\ refined = <<>>
    /\ query = <<>> /\ text = <<>> /\ relevance = Zero
    /\ RefineIdle
    /\ ExtractIdle
    /\ UnitIdle
    /\ Round1aIdle

\* one call of _rank_sections_by_relevance(sections, persona, job_to_be_done)
RankSections ==
    /\ op = "init"
    /\ \E enc \in EncoderRuns(Len(sections), sentence_model) :
          /\ scored' = IF sections = <<>> THEN <<>>
                        ELSE ScoredSections(sections, sentence_model, enc, nlp,
                                            persona, job_to_be_done)
          /\ ranked' = rank_sections_by_relevance(sections, sentence_model, enc, nlp,
                                                   persona, job_to_be_done)
          /\ encoded' = IF sentence_model = "loaded" THEN enc ELSE <<>>
          /\ sections' = SectionsAfterRank(sections, sentence_model, enc, nlp,
                                           persona, job_to_be_done)
    /\ op' = "rank"
    /\ UNCHANGED <<sentence_model, nlp, persona, job_to_be_done>>
    /\ UNCHANGED notRank

NextRank == RankSections

SpecRank == InitRank /\ [][NextRank]_vars

-----------------------------------------------------------------------------
(* TextProcessor.clean_text and TextProcessor.is_likely_heading *)

Cased(c) == c \in LowerLetters \cup UpperLetters

\* \w
WordChar(c) == Cased(c) \/ c \in Digits \/ c = "_"

\* re.sub(r'\s+', ' ', text)
CollapseWhitespace(s) ==
    LET keep == SelectSeq([i \in DOMAIN s |-> i],
                          LAMBDA i : ~(s[i] \in Whitespace /\ i > 1
                                        /\ s[i - 1] \in Whitespace))
    IN  [k \in DOMAIN keep |->
            IF s[keep[k]] \in Whitespace THEN " " ELSE s[keep[k]]]

KeptPunctuation == {".", ",", "!", "?", ":", ";", "-", "(", ")"}

\* re.sub(r'[^\w\s\.\,\!\?\:\;\-\(\)]', ' ', text)
BlankSpecials(s) ==
    [i \in DOMAIN s |->
        IF WordChar(s[i]) \/ s[i] \in Whitespace \/ s[i] \in KeptPunctuation
        THEN s[i] ELSE " "]

\* lines 23-34
clean_text(t) ==
    IF t = <<>> THEN <<>> ELSE Strip(BlankSpecials(CollapseWhitespace(t)))

\* str.isupper()
IsUpper(s) ==
    /\ \E i \in DOMAIN s : Cased(s[i])
    /\ \A i \in DOMAIN s : s[i] \notin LowerLetters

\* str.istitle()
IsTitle(s) ==
    /\ \E i \in DOMAIN s : Cased(s[i])
    /\ \A i \in DOMAIN s :
          /\ s[i] \in UpperLetters => (i = 1 \/ ~Cased(s[i - 1]))
          /\ s[i] \in LowerLetters => (i > 1 /\ Cased(s[i - 1]))

\* re.match(r'^\d+[\.\)]\s+', t)
MatchesNumbered(t) ==
    \E i \in 1..(Len(t) - 2) :
        /\ \A k \in 1..i : t[k] \in Digits
        /\ t[i + 1] \in {".", ")"}
        /\ t[i + 2] \in Whitespace

\* re.match(r'^[A-Z]+[\.\s]+', t)
MatchesCapitals(t) ==
    \E i \in 1..(Len(t) - 1) :
        /\ \A k \in 1..i : t[k] \in UpperLetters
        /\ t[i + 1] \in {"."} \cup Whitespace

\* re.match(r'^\w+\s+\d+', t)
MatchesWordNumber(t) ==
    \E i \in 1..(Len(t) - 2) : \E j \in 1..(Len(t) - 1 - i) :
        /\ \A k \in 1..i : WordChar(t[k])
        /\ \A k \in (i + 1)..(i + j) : t[k] \in Whitespace
        /\ t[i + j + 1] \in Digits

\* the numbers of lines 38, 46 and 67 of text_utils.py
MinHeadingLen == 3
ShortTextLen == 100
HeadingThreshold == 3

\* the ratio test passing at 1.1 itself
is_likely_heading_from_11(t, font_size, avg) ==
    IF t = <<>> \/ Len(Strip(t)) < MinHeadingLen THEN FALSE
    ELSE LET is_larger_font  == IF avg[1] > 0
                                THEN font_size * avg[2] * 10 >= 11 * avg[1]
                                ELSE FALSE
             is_short        == Len(t) < ShortTextLen
             is_capitalized  == IsUpper(t) \/ IsTitle(t)
             ends_with_colon == Strip(t)[Len(Strip(t))] = ":"
             matches_pattern == \/ MatchesNumbered(Strip(t))
                                \/ MatchesCapitals(Strip(t))
                                \/ MatchesWordNumber(Strip(t))
             score == (IF is_larger_font THEN 2 ELSE 0)
                    + (IF is_short THEN 1 ELSE 0)
                    + (IF is_capitalized THEN 1 ELSE 0)
                    + (IF ends_with_colon THEN 1 ELSE 0)
                    + (IF matches_pattern THEN 2 ELSE 0)
         IN  score >= HeadingThreshold

\* lines 36-67; avg_font_size is the fraction <<sum, count>> and the ratio
\* test font_size / avg_font_size > 1.1 is taken exactly
is_likely_heading(t, font_size, avg) ==
    IF t = <<>> \/ Len(Strip(t)) < MinHeadingLen THEN FALSE
    ELSE LET is_larger_font  == IF avg[1] > 0
                                THEN font_size * avg[2] * 10 > 11 * avg[1]
                                ELSE FALSE
             is_short        == Len(t) < ShortTextLen
             is_capitalized  == IsUpper(t) \/ IsTitle(t)
             ends_with_colon == Strip(t)[Len(Strip(t))] = ":"
             matches_pattern == \/ MatchesNumbered(Strip(t))
                                \/ MatchesCapitals(Strip(t))
                                \/ MatchesWordNumber(Strip(t))
             score == (IF is_larger_font THEN 2 ELSE 0)
                    + (IF is_short THEN 1 ELSE 0)
                    + (IF is_capitalized THEN 1 ELSE 0)
                    + (IF ends_with_colon THEN 1 ELSE 0)
                    + (IF matches_pattern THEN 2 ELSE 0)
         IN  score >= HeadingThreshold

(* Inputs of the classifier specification *)

S_pay_colon == W_pay \o <<":">>
S_tax == <<"T", "a", "x">>

\* texts with each signal alone and in pairs, texts under 3 characters, and
\* texts of 99 and 100 characters
SpanTexts ==
    { <<>>, <<"a", "y">>, <<"A", ":">>, <<"A", ":", " ">>, <<"1", ".", " ">>,
      W_pay, S_tax, <<"T", "A", "X">>, S_pay_colon, S_pay_colon \o <<" ">>,
      S_tax \o <<":">>, <<"1", ".", " ">> \o W_pay, <<"1", ")", " ">> \o W_pay,
      <<"A", " ">> \o W_pay, <<"T", "A", ".", " ">> \o W_pay,
      W_pay \o <<" ", "1">>, W_pay \o <<" ">> \o W_tax, <<"1", ".">> \o W_pay,
      <<"A", "B", "@">>, <<"@", "@", "@">> }
        \cup {Rep(c, n) : c \in {"a", "A"},
                          n \in (ShortTextLen - 1)..(ShortTextLen + 1)}
        \cup {<<"1", ".", " ">> \o Rep("a", n) : n \in (ShortTextLen - 4)..(ShortTextLen - 3)}

\* font sizes below, at and above 1.1 times an average of 10
SpanFontSizes == {10, 11, 12}

\* averages: 10, 10.5, and the 0 of spans that all have size 0
Averages == {<<10, 1>>, <<21, 2>>, <<0, 1>>}

InitClassify ==
    /\ op = "init"
    /\ span \in [text : SpanTexts, font_size : SpanFontSizes]
    /\ average \in Averages
    /\ likely = FALSE
    /\ RefineIdle
    /\ SummaryIdle
    /\ KeywordIdle
    /\ RankIdle
    /\ ExtractIdle
    /\ SegmentIdle
    /\ ContentIdle
    /\ Round1aIdle

\* one call of is_likely_heading(text, font_size, avg_font_size)
IsLikelyHeading ==
    /\ op = "init"
    /\ op' = "classify"
    /\ likely' = is_likely_heading(span.text, span.font_size, average)
    /\ UNCHANGED <<span, average>>
    /\ UNCHANGED notClassify

NextClassify == IsLikelyHeading

SpecClassify == InitClassify /\ [][NextClassify]_vars

-----------------------------------------------------------------------------
(* PDFProcessor and RelevanceExtractor._extract_document_sections *)
(* A PDF file is a record: its directory, name and stem, whether fitz.open  *)
(* can load it, the number of the page whose reading raises an error (0    *)
(* when every page can be read), and its pages; a page has the spans of    *)
(* the parser and its plain text. *)

\* pdf_utils.py lines 48-59: the spans with non-blank text, trimmed
FormattedText(page) ==
    SelectSeq([i \in DOMAIN page.spans |->
                  [text |-> Strip(page.spans[i].text),
                   font_size |-> page.spans[i].font_size]],
              LAMBDA item : item.text # <<>>)

RECURSIVE SumFontSizes(_)
SumFontSizes(items) ==
    IF items = <<>> THEN 0 ELSE Head(items).font_size + SumFontSizes(Tail(items))

\* the candidate keeping the span's text as the parser gave it
find_headings_in_page_uncleaned(formatted_text) ==
    IF formatted_text = <<>> THEN <<>>
    ELSE LET avg_font_size == <<SumFontSizes(formatted_text), Len(formatted_text)>>
             accepted == SelectSeq(formatted_text,
                             LAMBDA item : is_likely_heading(item.text, item.font_size,
                                                             avg_font_size))
         IN  [k \in DOMAIN accepted |->
                [text      |-> accepted[k].text,
                 font_size |-> accepted[k].font_size,
                 level     |-> "H2"]]

\* lines 143-162
find_headings_in_page(formatted_text) ==
    IF formatted_text = <<>> THEN <<>>
    ELSE LET avg_font_size == <<SumFontSizes(formatted_text), Len(formatted_text)>>
             accepted == SelectSeq(formatted_text,
                             LAMBDA item : is_likely_heading(item.text, item.font_size,
                                                             avg_font_size))
         IN  [k \in DOMAIN accepted |->
                [text      |-> clean_text(accepted[k].text),
                 font_size |-> accepted[k].font_size,
                 level     |-> "H2"]]

\* the number of lines 178 and 182
ContentWindow == 10

MinOf(S) == CHOOSE x \in S : \A y \in S : x <= y

\* the window starting at the heading line itself
extract_section_content_from_heading(page_text, heading) ==
    LET lines == SplitFrom(page_text, 1, {i \in DOMAIN page_text : page_text[i] = "\n"})
        found == {i \in DOMAIN lines : Contains(Lower(heading), Lower(lines[i]))}
    IN  IF found = {} THEN Join(Take(lines, ContentWindow), <<" ">>)
        ELSE LET start_idx == MinOf(found)
                 end_idx   == Min(start_idx + ContentWindow - 1, Len(lines))
             IN  Strip(Join(SubSeq(lines, start_idx, end_idx), <<" ">>))

\* lines 164-185
extract_section_content(page_text, heading) ==
    LET lines == SplitFrom(page_text, 1, {i \in DOMAIN page_text : page_text[i] = "\n"})
        found == {i \in DOMAIN lines : Contains(Lower(heading), Lower(lines[i]))}
    IN  IF found = {} THEN Join(Take(lines, ContentWindow), <<" ">>)
        ELSE LET start_idx == MinOf(found) + 1
                 end_idx   == Min(start_idx + ContentWindow - 1, Len(lines))
             IN  Strip(Join(SubSeq(lines, start_idx, end_idx), <<" ">>))

\* str(n) for n >= 0
DigitChar(d) ==
    CASE d = 0 -> "0" [] d = 1 -> "1" [] d = 2 -> "2" [] d = 3 -> "3"
      [] d = 4 -> "4" [] d = 5 -> "5" [] d = 6 -> "6" [] d = 7 -> "7"
      [] d = 8 -> "8" [] d = 9 -> "9"

RECURSIVE Str(_)
Str(n) == IF n < 10 THEN <<DigitChar(n)>> ELSE Str(n \div 10) \o <<DigitChar(n % 10)>>

\* the page field and the "Page {n}" title carrying page_num itself
PageSectionsZeroBased(filename, page, page_num) ==
    LET formatted_text == FormattedText(page)
        plain_text     == page.plain
        hs             == find_headings_in_page(formatted_text)
    IN  IF hs = <<>>
        THEN IF Strip(plain_text) # <<>>
             THEN << [document      |-> filename,
                      page          |-> page_num,
                      title         |-> <<"P", "a", "g", "e", " ">> \o Str(page_num),
                      content       |-> plain_text,
                      heading_level |-> "content"] >>
             ELSE <<>>
        ELSE [k \in DOMAIN hs |->
                [document      |-> filename,
                 page          |-> page_num,
                 title         |-> hs[k].text,
                 content       |-> extract_section_content(plain_text, hs[k].text),
                 heading_level |-> hs[k].level]]

\* the whole-page section made without looking at plain_text.strip()
PageSectionsOfAnyText(filename, page, page_num) ==
    LET formatted_text == FormattedText(page)
        plain_text     == page.plain
        hs             == find_headings_in_page(formatted_text)
    IN  IF hs = <<>>
        THEN << [document      |-> filename,
                 page          |-> page_num + 1,
                 title         |-> <<"P", "a", "g", "e", " ">> \o Str(page_num + 1),
                 content       |-> plain_text,
                 heading_level |-> "content"] >>
        ELSE [k \in DOMAIN hs |->
                [document      |-> filename,
                 page          |-> page_num + 1,
                 title         |-> hs[k].text,
                 content       |-> extract_section_content(plain_text, hs[k].text),
                 heading_level |-> hs[k].level]]

\* lines 106-136: the sections of the page with index page_num
PageSections(filename, page, page_num) ==
    LET formatted_text == FormattedText(page)
        plain_text     == page.plain
        hs             == find_headings_in_page(formatted_text)
    IN  IF hs = <<>>
        THEN IF Strip(plain_text) # <<>>
             THEN << [document      |-> filename,
                      page          |-> page_num + 1,
                      title         |-> <<"P", "a", "g", "e", " ">> \o Str(page_num + 1),
                      content       |-> plain_text,
                      heading_level |-> "content"] >>
             ELSE <<>>
        ELSE [k \in DOMAIN hs |->
                [document      |-> filename,
                 page          |-> page_num + 1,
                 title         |-> hs[k].text,
                 content       |-> extract_section_content(plain_text, hs[k].text),
                 heading_level |-> hs[k].level]]

\* the lists of a list of lists, one after the other
RECURSIVE Flatten(_)
Flatten(ls) == IF ls = <<>> THEN <<>> ELSE Head(ls) \o Flatten(Tail(ls))

\* Path(pdf_path).name
FileName(f) == f.name

\* page.get_text raises for some page of the document (pdf_utils.py lines
\* 39-40 and 68-69 have no handler)
PageReadRaises(f) == f.loadable /\ f.broken \in DOMAIN f.pages

\* pdf_utils.py lines 19-26: the processor's doc after load_pdf for file f,
\* d being its doc before; a failed fitz.open assigns nothing
load_pdf(d, f) == IF f.loadable THEN FileName(f) ELSE d

\* the test 'if self.doc' of line 115 when self.doc is the opened document
\* f: the object has a length, its number of pages (len(self.doc), line
\* 31), and is true when that is not 0
Truthy(f) == Len(f.pages) # 0

\* pdf_utils.py lines 113-117: the processor's doc after close(), when it
\* holds the opened document f
close(f) == IF Truthy(f) THEN "none" ELSE FileName(f)

\* the processor's doc after extract_outline or _extract_document_sections
\* ran for file f: a failed load leaves before the try block, everything
\* else goes through the finally clause
DocAfter(d, f) == IF f.loadable THEN close(f) ELSE load_pdf(d, f)

\* relevance_extractor.py lines 52-58: the processor's doc after the loop
\* over the files, which an error raised while a page is read leaves
RECURSIVE DocAfterAll(_, _)
DocAfterAll(d, files) ==
    IF files = <<>> THEN d
    ELSE IF PageReadRaises(Head(files)) THEN DocAfter(d, Head(files))
    ELSE DocAfterAll(DocAfter(d, Head(files)), Tail(files))

\* lines 93-141, for a document whose pages can all be read
extract_document_sections(f) ==
    IF ~f.loadable THEN <<>>
    ELSE Flatten([i \in DOMAIN f.pages |-> PageSections(FileName(f), f.pages[i], i - 1)])

-----------------------------------------------------------------------------
(* RelevanceExtractor.extract_relevant_sections *)

\* the analysis leaving out the sections whose refined text is empty
generate_subsection_analysis_nonempty(top_sections, p, j) ==
    LET top == Take(top_sections, TopAnalysis)
    IN  SelectSeq([k \in DOMAIN top |->
                      [document     |-> top[k].document,
                       page         |-> top[k].page,
                       refined_text |-> create_refined_text(top[k].content, p, j)]],
                  LAMBDA entry : entry.refined_text # <<>>)

\* lines 257-275
generate_subsection_analysis(top_sections, p, j) ==
    LET top == Take(top_sections, TopAnalysis)
    IN  [k \in DOMAIN top |->
            [document     |-> top[k].document,
             page         |-> top[k].page,
             refined_text |-> create_refined_text(top[k].content, p, j)]]

ExtractedSectionsFromZero(relevant) ==
    LET top == Take(relevant, TopSections)
    IN  [k \in DOMAIN top |->
            [document        |-> top[k].document,
             page            |-> top[k].page,
             section_title   |-> top[k].title,
             importance_rank |-> k - 1]]

\* lines 78-86: enumerate counts from 0, so entry k of the list has i = k - 1
ExtractedSections(relevant) ==
    LET top == Take(relevant, TopSections)
    IN  [k \in DOMAIN top |->
            [document        |-> top[k].document,
             page            |-> top[k].page,
             section_title   |-> top[k].title,
             importance_rank |-> (k - 1) + 1]]

\* lines 49-58
AllSections(files) ==
    Flatten([i \in DOMAIN files |-> extract_document_sections(files[i])])

\* metadata.documents made of the documents that gave a section
BuildResultOfContributors(files, relevant, p, j) ==
    [metadata |-> [documents      |->
                       SelectSeq([i \in DOMAIN files |-> FileName(files[i])],
                                 LAMBDA name : \E k \in DOMAIN relevant :
                                                   relevant[k].document = name),
                   persona        |-> p,
                   job_to_be_done |-> j],
     extracted_sections   |-> ExtractedSections(relevant),
     sub_section_analysis |->
         generate_subsection_analysis(Take(relevant, TopAnalysis), p, j)]

\* lines 66-88 (the timestamp is the clock's, and is left out)
BuildResult(files, relevant, p, j) ==
    [metadata |-> [documents      |-> [i \in DOMAIN files |-> FileName(files[i])],
                   persona        |-> p,
                   job_to_be_done |-> j],
     extracted_sections   |-> ExtractedSections(relevant),
     sub_section_analysis |->
         generate_subsection_analysis(Take(relevant, TopAnalysis), p, j)]

(* Inputs of the extraction specification *)

MaxDocs == 2    \* exhaustive document lists up to this length

BodyFont == 10
HeadFont == 16

S_heading == <<"1", ".", " ", "T", "a", "x">>
S_body == Sentence(<<W_pay, <<"t", "h", "e">>, W_tax>>)
S_jet == <<"J", "e", "t", ":">>
S_tail == Sentence(<<W_jet, <<"p", "a", "y", "s">>>>)

Lines(ls) == Join(ls, <<"\n">>)

\* a page with a numbered heading in a larger font and a title-case heading
\* ending in a colon; a page of body text; a blank page
HeadedPage ==
    [spans |-> << [text |-> S_heading, font_size |-> HeadFont],
                  [text |-> S_body \o <<" ">>, font_size |-> BodyFont],
                  [text |-> S_jet, font_size |-> BodyFont],
                  [text |-> <<" ">>, font_size |-> BodyFont],
                  [text |-> S_tail, font_size |-> BodyFont] >>,
     plain |-> Lines(<<S_heading, S_body, S_jet, S_tail>>) \o <<"\n">>]

BodyPage(i) ==
    [spans |-> << [text |-> IF i % 2 = 0 THEN S_body ELSE S_tail,
                   font_size |-> BodyFont] >>,
     plain |-> (IF i % 2 = 0 THEN S_body ELSE S_tail) \o <<"\n">>]

BlankPage == [spans |-> <<>>, plain |-> <<" ", "\n">>]

\* b.pdf cannot be opened, c.pdf is one blank page, and the second page of
\* x.pdf cannot be read
DocumentPool ==
    { [dir |-> "in", name |-> "a.pdf", stem |-> <<"a">>, loadable |-> TRUE,
       broken |-> 0, pages |-> <<HeadedPage, BodyPage(2)>>],
      [dir |-> "in", name |-> "b.pdf", stem |-> <<"b">>, loadable |-> FALSE,
       broken |-> 0, pages |-> <<>>],
      [dir |-> "in", name |-> "c.pdf", stem |-> <<"c">>, loadable |-> TRUE,
       broken |-> 0, pages |-> <<BlankPage>>],
      [dir |-> "in", name |-> "d.pdf", stem |-> <<"d">>, loadable |-> TRUE,
       broken |-> 0, pages |-> <<BodyPage(1), BlankPage, HeadedPage>>],
      [dir |-> "in", name |-> "x.pdf", stem |-> <<"x">>, loadable |-> TRUE,
       broken |-> 2, pages |-> <<HeadedPage, BodyPage(2)>>] }

\* a document of n pages of body text: n whole-page sections
LongDocument(n) ==
    [dir |-> "in", name |-> "e.pdf", stem |-> <<"e">>, loadable |-> TRUE,
     broken |-> 0, pages |-> [i \in 1..n |-> BodyPage(i)]]

DocumentLists ==
    UNION {[1..n -> DocumentPool] : n \in 0..MaxDocs}
        \cup {<<LongDocument(n)>> : n \in LongLengths}
        \cup {<<LongDocument(n), CHOOSE d \in DocumentPool : d.name = "a.pdf">> :
                 n \in LongLengths}

InitExtract ==
    /\ op = "init"
    /\ sentence_model \in {"none", "loaded"}
    /\ nlp \in BOOLEAN
    /\ persona \in RankPersonas
    /\ job_to_be_done \in RankJobs
    /\ pdf_files \in DocumentLists
    /\ doc = "none"
    /\ result = NoResult
    /\ sections = <<>> /\ scored = <<>> /\ ranked = <<>> /\ encoded = <<>>
    /\ content = <<>> /\ refined = <<>>
    /\ query = <<>> /\ text = <<>> /\ relevance = Zero
    /\ RefineIdle
    /\ UnitIdle
    /\ Round1aIdle

\* the call of extract_relevant_sections(pdf_files, persona, job_to_be_done)
\* made by run_round1b (main.py lines 84-99).  An error raised while a page
\* is read leaves _extract_document_sections through its finally clause and
\* extract_relevant_sections with it, and is caught at line 98 of main.py:
\* nothing is returned and nothing is saved.
ExtractRelevantSections ==
    /\ op = "init"
    /\ IF \E i \in DOMAIN pdf_files : PageReadRaises(pdf_files[i])
       THEN /\ op' = "failed"
            /\ UNCHANGED <<sections, scored, ranked, encoded, result>>
       ELSE /\ op' = "extract"
            /\ LET all_sections == AllSections(pdf_files)
               IN  \E enc \in EncoderRuns(Len(all_sections), sentence_model) :
                     LET relevant_sections ==
                             rank_sections_by_relevance(all_sections, sentence_model,
                                                        enc, nlp, persona,
                                                        job_to_be_done)
                     IN  /\ sections' = all_sections
                         /\ scored' = IF all_sections = <<>> THEN <<>>
                                       ELSE ScoredSections(all_sections, sentence_model,
                                                           enc, nlp, persona,
                                                           job_to_be_done)
                         /\ ranked' = relevant_sections
                         /\ encoded' = IF sentence_model = "loaded" THEN enc ELSE <<>>
                         /\ result' = BuildResult(pdf_files, relevant_sections,
                                                   persona, job_to_be_done)
    /\ doc' = DocAfterAll(doc, pdf_files)
    /\ UNCHANGED <<sentence_model, nlp, persona, job_to_be_done, pdf_files>>
    /\ UNCHANGED notExtract

NextExtract == ExtractRelevantSections

SpecExtract == InitExtract /\ [][NextExtract]_vars

-----------------------------------------------------------------------------
(* RelevanceExtractor._extract_section_content on its own *)

MaxLines == 3     \* exhaustive page texts have up to this many lines
LinesExtra == 2   \* patterned page texts have up to ContentWindow + LinesExtra lines

LinePool == {S_tax, Sentence(<<W_pay, W_tax>>), <<" ">> \o W_jet \o <<" ">>, <<>>}

ShortPageTexts == {Lines(ls) : ls \in UNION {[1..n -> LinePool] : n \in 0..MaxLines}}

\* n lines a, aa, aaa, ... with the line "1. Tax" in place of line h (no
\* such line for h = 0) and blanks around the last line
LongPageText(n, h) ==
    Lines([i \in 1..n |-> IF i = h THEN S_heading
                           ELSE IF i = n THEN <<" ">> \o Rep("a", i) \o <<" ">>
                           ELSE Rep("a", i)])

LongPageTexts ==
    {LongPageText(n, h) : n \in (ContentWindow - 1)..(ContentWindow + LinesExtra),
                          h \in {0, 1, 2, ContentWindow - 1}}

HeadingTexts ==
    {S_tax, W_tax, W_jet, <<>>, <<"q">>, Sentence(<<W_pay, W_tax>>), S_heading}

InitContent ==
    /\ op = "init"
    /\ the_page_text \in ShortPageTexts \cup LongPageTexts
    /\ the_heading \in HeadingTexts
    /\ the_content = <<>>
    /\ RefineIdle
    /\ SummaryIdle
    /\ KeywordIdle
    /\ RankIdle
    /\ ExtractIdle
    /\ ClassifyIdle
    /\ SegmentIdle
    /\ Round1aIdle

\* one call of _extract_section_content(page_text, heading, page_num)
ExtractSectionContent ==
    /\ op = "init"
    /\ op' = "content"
    /\ the_content' = extract_section_content(the_page_text, the_heading)
    /\ UNCHANGED <<the_page_text, the_heading>>
    /\ UNCHANGED notContent

NextContent == ExtractSectionContent

SpecContent == InitContent /\ [][NextContent]_vars

-----------------------------------------------------------------------------
(* One iteration of the page loop of _extract_document_sections *)

MaxSpans == 2       \* pages have up to this many spans
MaxPageIndex == 2   \* page indexes 0..MaxPageIndex, and two of two digits

S_at == <<"A", "T", "@">>
S_marks == <<"@", "@", "@">>

\* spans as the parser gives them: a numbered heading, body text, a
\* title-case label with a colon, upper-case letters with a symbol, symbols
\* only, a blank span, two letters
SpanPool ==
    { [text |-> S_heading, font_size |-> HeadFont],
      [text |-> S_body, font_size |-> BodyFont],
      [text |-> S_jet, font_size |-> BodyFont],
      [text |-> S_at, font_size |-> HeadFont],
      [text |-> S_marks, font_size |-> HeadFont],
      [text |-> <<" ">>, font_size |-> BodyFont],
      [text |-> <<"a", "y">>, font_size |-> HeadFont] }

\* page.get_text(): the text of the spans, one line each
PlainText(spans) ==
    IF spans = <<>> THEN <<>>
    ELSE Lines([i \in DOMAIN spans |-> spans[i].text]) \o <<"\n">>

PagePool ==
    { [spans |-> sp, plain |-> PlainText(sp)] :
        sp \in UNION {[1..n -> SpanPool] : n \in 0..MaxSpans} }

PageIndexes == (0..MaxPageIndex) \cup {9, 10}

InitSegment ==
    /\ op = "init"
    /\ the_page \in PagePool
    /\ the_page_num \in PageIndexes
    /\ the_headings = <<>>
    /\ the_sections = <<>>
    /\ RefineIdle
    /\ SummaryIdle
    /\ KeywordIdle
    /\ RankIdle
    /\ ExtractIdle
    /\ ClassifyIdle
    /\ ContentIdle
    /\ Round1aIdle

\* lines 104-136 for one page of the document "a.pdf"
SegmentPage ==
    /\ op = "init"
    /\ op' = "segment"
    /\ the_headings' = find_headings_in_page(FormattedText(the_page))
    /\ the_sections' = PageSections("a.pdf", the_page, the_page_num)
    /\ UNCHANGED <<the_page, the_page_num>>
    /\ UNCHANGED notSegment

NextSegment == SegmentPage

SpecSegment == InitSegment /\ [][NextSegment]_vars

-----------------------------------------------------------------------------
(* Round 1A: run_round1a, OutlineExtractor.extract_outline and             *)
(* PDFProcessor.detect_document_title *)

\* None, and the empty string that `not title` treats alike
NoTitle == <<>>

UntitledDocument ==
    <<"U", "n", "t", "i", "t", "l", "e", "d", " ",
      "D", "o", "c", "u", "m", "e", "n", "t">>

\* the length of line 108 of pdf_utils.py
LongSpanLen == 10

\* extract_text_with_formatting(0)
FirstPageText(f) == IF f.pages = <<>> THEN <<>> ELSE FormattedText(f.pages[1])

\* the title made of the first candidate alone
detect_document_title_first_only(f) ==
    LET first_page_text == FirstPageText(f)
    IN  IF first_page_text = <<>> THEN NoTitle
        ELSE LET max_font_size ==
                     CHOOSE m \in {first_page_text[i].font_size : i \in DOMAIN first_page_text} :
                         \A i \in DOMAIN first_page_text : first_page_text[i].font_size <= m
                 title_candidates ==
                     SelectSeq(first_page_text, LAMBDA item : item.font_size = max_font_size)
             IN  title_candidates[1].text

\* pdf_utils.py lines 82-111, for a loaded document
detect_document_title(f) ==
    LET first_page_text == FirstPageText(f)
    IN  IF first_page_text = <<>> THEN NoTitle
        ELSE LET max_font_size ==
                     CHOOSE m \in {first_page_text[i].font_size : i \in DOMAIN first_page_text} :
                         \A i \in DOMAIN first_page_text : first_page_text[i].font_size <= m
                 title_candidates ==
                     SelectSeq(first_page_text, LAMBDA item : item.font_size = max_font_size)
                 long_spans ==
                     SelectSeq(first_page_text, LAMBDA item : Len(item.text) > LongSpanLen)
             IN  IF title_candidates # <<>>
                 THEN Join([k \in DOMAIN Take(title_candidates, 2) |-> title_candidates[k].text],
                           <<" ">>)
                 ELSE IF long_spans # <<>> THEN long_spans[1].text
                 ELSE UntitledDocument

\* text_utils.py lines 69-90
classify_heading_level(size, font_sizes) ==
    IF font_sizes = <<>> THEN "H1"
    ELSE LET unique_sizes == SortedDesc(ToSet(font_sizes))
         IN  IF Len(unique_sizes) < 2 THEN "H1"
             ELSE IF unique_sizes[1] = size THEN "H1"
             ELSE IF unique_sizes[2] = size THEN "H2"
             ELSE "H3"

\* outline_extractor.py lines 61-65 and 73-78: the spans of all pages, each
\* with the page_num of the loop
AllSpans(f) ==
    Flatten([i \in DOMAIN f.pages |->
                LET formatted_text == FormattedText(f.pages[i])
                IN  [k \in DOMAIN formatted_text |->
                        [text      |-> formatted_text[k].text,
                         font_size |-> formatted_text[k].font_size,
                         page_num  |-> i - 1]]])

\* the default of line 68
DefaultFontSize == 12

\* outline_extractor.py lines 53-97
extract_headings(f) ==
    LET all_spans     == AllSpans(f)
        avg_font_size == IF all_spans # <<>>
                         THEN <<SumFontSizes(all_spans), Len(all_spans)>>
                         ELSE <<DefaultFontSize, 1>>
        accepted == SelectSeq(all_spans,
                        LAMBDA item : is_likely_heading(item.text, item.font_size,
                                                        avg_font_size))
        all_headings ==
            [k \in DOMAIN accepted |->
                [level     |-> classify_heading_level(
                                   accepted[k].font_size,
                                   [j \in 1..k |-> accepted[j].font_size]),
                 text      |-> clean_text(accepted[k].text),
                 page      |-> accepted[k].page_num + 1,
                 font_size |-> accepted[k].font_size]]
    IN  refine_heading_hierarchy(all_headings)

\* Path(pdf_path).stem
Stem(f) == f.stem

\* outline_extractor.py lines 33-48, for a document that loads and reads
extract_outline(f) ==
    LET detected == detect_document_title(f)
        title    == IF detected = NoTitle THEN Stem(f) ELSE detected
    IN  [title |-> title, outline |-> extract_headings(f)]

\* main.py lines 48-59: extract_outline raises when the document cannot be
\* loaded or a page cannot be read, save_result when the file cannot be
\* written; the handler of line 58 takes all of them
ProcessingFails(f, unwr) ==
    ~f.loadable \/ PageReadRaises(f) \/ Stem(f) \in unwr

\* the loop left at the first error
NextFileAborting(pos, n, failed) == IF failed THEN n ELSE pos + 1

\* main.py lines 47 and 58-59: the handler is inside the loop body, and the
\* loop goes on to the next file
NextFile(pos, n, failed) == pos + 1

(* Inputs of the Round 1A specification *)

S_tax_one == S_tax \o <<" ", "1">>
S_cap_pay == <<"P", "a", "y">>

\* a first page whose largest font is shared by three spans, none of them
\* the first span
TitlePage ==
    [spans |-> << [text |-> S_body, font_size |-> BodyFont],
                  [text |-> S_tax_one, font_size |-> HeadFont],
                  [text |-> S_cap_pay, font_size |-> HeadFont],
                  [text |-> W_pay, font_size |-> HeadFont] >>,
     plain |-> Lines(<<S_body, S_tax_one, S_cap_pay, W_pay>>) \o <<"\n">>]

\* the documents of the pool above, t.pdf whose first page is TitlePage,
\* and z.pdf without pages
OutlinePool ==
    DocumentPool \cup
    { [dir |-> "in", name |-> "t.pdf", stem |-> <<"t">>, loadable |-> TRUE,
       broken |-> 0, pages |-> <<TitlePage, HeadedPage>>],
      [dir |-> "in", name |-> "z.pdf", stem |-> <<"z">>, loadable |-> TRUE,
       broken |-> 0, pages |-> <<>>] }

\* list(input_path.glob("*.pdf")): files of one directory, each once
GlobLists ==
    {fs \in UNION {[1..n -> OutlinePool] : n \in 0..MaxDocs} :
        \A i, j \in DOMAIN fs : i # j => fs[i] # fs[j]}

InitRound1a ==
    /\ op = "init"
    /\ pdf_files \in GlobLists
    /\ unwritable \in SUBSET {Stem(pdf_files[i]) : i \in DOMAIN pdf_files}
    /\ position = 0
    /\ attempted = <<>>
    /\ saved = <<>>
    /\ stage = "idle"
    /\ doc = "none"
    /\ result = NoResult
    /\ RefineIdle
    /\ SummaryIdle
    /\ KeywordIdle
    /\ RankIdle
    /\ UnitIdle

\* one iteration of the loop of run_round1a (main.py lines 47-59)
ProcessPdf ==
    /\ op \in {"init", "round1a"}
    /\ position < Len(pdf_files)
    /\ LET pdf_file == pdf_files[position + 1]
           failed   == ProcessingFails(pdf_file, unwritable)
       IN  /\ attempted' = Append(attempted, FileName(pdf_file))
           /\ saved' = IF failed THEN saved
                        ELSE Append(saved, [file   |-> Stem(pdf_file),
                                            result |-> extract_outline(pdf_file)])
           /\ position' = NextFile(position, Len(pdf_files), failed)
           /\ doc' = DocAfter(doc, pdf_file)
    /\ op' = "round1a"
    /\ UNCHANGED <<pdf_files, unwritable, stage>>
    /\ UNCHANGED notRound1a

NextRound1a == ProcessPdf

SpecRound1a == InitRound1a /\ [][NextRound1a]_vars

\* the for loop is sequential code: while files are left, the loop moves on
\* to the next one
LoopAdvances == position < Len(pdf_files) /\ position' = position + 1

SpecRound1aFair == SpecRound1a /\ WF_position(LoopAdvances)

-----------------------------------------------------------------------------
(* The PDFProcessor of one extractor, call by call: load_pdf, the try      *)
(* block and the finally clause of extract_outline (outline_extractor.py   *)
(* lines 30-51) and of _extract_document_sections (relevance_extractor.py  *)
(* lines 95-141) *)

CurrentFile == pdf_files[position + 1]

\* extract_outline is called for the next file (main.py line 50, inside the
\* try of the loop): line 30 loads it, and line 31 raises when that fails
LoadForOutline ==
    /\ op = "init" \/ (op = "outline" /\ stage \in {"returned", "raised"})
    /\ position < Len(pdf_files)
    /\ op' = "outline"
    /\ doc' = load_pdf(doc, CurrentFile)
    /\ IF CurrentFile.loadable
       THEN stage' = "loaded" /\ UNCHANGED position
       ELSE stage' = "raised" /\ position' = position + 1
    /\ UNCHANGED <<pdf_files, attempted, saved, unwritable>>
    /\ UNCHANGED notRound1a

\* _extract_document_sections is called for the next file (line 56 of
\* relevance_extractor.py): line 95 loads it, and line 97 returns [] when
\* that fails; an error raised for an earlier file has ended the loop
LoadForSections ==
    /\ op = "init" \/ (op = "sections" /\ stage = "returned")
    /\ position < Len(pdf_files)
    /\ op' = "sections"
    /\ doc' = load_pdf(doc, CurrentFile)
    /\ IF CurrentFile.loadable
       THEN stage' = "loaded" /\ UNCHANGED position
       ELSE stage' = "returned" /\ position' = position + 1
    /\ UNCHANGED <<pdf_files, attempted, saved, unwritable>>
    /\ UNCHANGED notRound1a

\* the try block reads the pages and returns or raises, and the finally
\* clause calls close() on the way out
ReadAndClose ==
    /\ stage = "loaded"
    /\ doc' = close(CurrentFile)
    /\ stage' = IF PageReadRaises(CurrentFile) THEN "raised" ELSE "returned"
    /\ position' = position + 1
    /\ UNCHANGED <<op, pdf_files, attempted, saved, unwritable>>
    /\ UNCHANGED notRound1a

NextProcessor == LoadForOutline \/ LoadForSections \/ ReadAndClose

SpecProcessor == InitRound1a /\ [][NextProcessor]_vars

\* the page loops of both rounds
InitPages == InitSegment \/ InitRound1a

NextPages == NextSegment \/ NextRound1a

SpecPages == InitPages /\ [][NextPages]_vars

-----------------------------------------------------------------------------
(* Properties of _refine_heading_hierarchy *)

\* candidate i precedes candidate j in page order, list order breaking ties
Precedes(hs, i, j) ==
    \/ hs[i].page < hs[j].page
    \/ hs[i].page = hs[j].page /\ i < j

\* the candidate that has exactly k - 1 candidates before it
SourceOf(hs, k) ==
    CHOOSE i \in DOMAIN hs :
        Cardinality({j \in DOMAIN hs : Precedes(hs, j, i)}) = k - 1

\* the level the size ranking gives candidate i
RankLevel(hs, i) ==
    LET larger == {hs[j].font_size : j \in DOMAIN hs} \cap
                  {f \in 0..(BigFont + 2) : f > hs[i].font_size}
    IN  CASE Cardinality(larger) = 0 -> "H1"
          [] Cardinality(larger) = 1 -> "H2"
          [] OTHER -> "H3"

PagesAscending(out) ==
    \A k \in 1..(Len(out) - 1) : out[k].page <= out[k + 1].page

LevelsIn(out) == {out[k].level : k \in DOMAIN out}

\* C1: every returned outline has at most 50 entries, in non-decreasing
\* page order.
C1_CappedAndPageOrdered ==
    /\ op \in {"refine", "rerun"} =>
          Len(outline) <= MaxHeadings /\ PagesAscending(outline)
    /\ op = "rerun" =>
          Len(outline2) <= MaxHeadings /\ PagesAscending(outline2)

\* more than 50 candidates, not in page order, were refined to exactly 50
C1_Witness ==
    /\ op = "refine"
    /\ Len(given) > MaxHeadings
    /\ ~PagesAscending(given)
    /\ Len(outline) = MaxHeadings

\* C2: the level of every candidate is decided by the rank of its font size
\* among the distinct sizes of all candidates (largest H1, second H2, any
\* smaller H3), both on the caller's dicts and in the returned entries; with
\* one distinct size everything is H1, whatever level came in.
C2_LevelsFromSizeRanking ==
    op = "refine" =>
        /\ Len(headings) = Len(given)
        /\ \A i \in DOMAIN given : headings[i].level = RankLevel(given, i)
        /\ \A k \in DOMAIN outline :
              outline[k].level = RankLevel(given, SourceOf(given, k))
        /\ Cardinality({given[i].font_size : i \in DOMAIN given}) = 1 =>
              \A k \in DOMAIN outline : outline[k].level = "H1"

\* four distinct sizes, all three levels given out, and a candidate that
\* came in as H1 leaves as H3
C2_Witness ==
    /\ op = "refine"
    /\ Cardinality({given[i].font_size : i \in DOMAIN given}) = 4
    /\ LevelsIn(outline) = Levels
    /\ \E i \in DOMAIN given : given[i].level = "H1" /\ headings[i].level = "H3"

\* C3: every returned entry has a level in {H1, H2, H3} and exactly the
\* fields level, text and page (no font_size).
C3_EntryShape ==
    /\ op \in {"refine", "rerun"} =>
          \A k \in DOMAIN outline :
              /\ DOMAIN outline[k] = {"level", "text", "page"}
              /\ outline[k].level \in Levels
    /\ op = "rerun" =>
          \A k \in DOMAIN outline2 :
              /\ DOMAIN outline2[k] = {"level", "text", "page"}
              /\ outline2[k].level \in Levels

\* candidates carrying font_size were refined into a non-empty outline
C3_Witness ==
    /\ op = "refine"
    /\ Len(outline) >= 2
    /\ \A i \in DOMAIN given : "font_size" \in DOMAIN given[i]
    /\ Cardinality(LevelsIn(outline)) >= 2

\* C4: the outline is the first min(50, n) candidates in page order, with
\* candidates of one page in their original order; no candidates, no entries.
C4_StableSortThenCap ==
    op = "refine" =>
        /\ Len(outline) = Min(MaxHeadings, Len(given))
        /\ \A k \in DOMAIN outline :
              /\ outline[k].text = given[SourceOf(given, k)].text
              /\ outline[k].page = given[SourceOf(given, k)].page
        /\ given = <<>> => outline = <<>>

\* two candidates of one page with different texts, behind a later page
C4_Witness ==
    /\ op = "refine"
    /\ \E i, j \in DOMAIN given :
          /\ i < j
          /\ given[i].page = given[j].page
          /\ given[i].text # given[j].text
    /\ ~PagesAscending(given)
    /\ Len(outline) = Len(given)

\* C5 as stated: running the function on its own output, font sizes put
\* back, returns the same levels in the same order.
C5_Idempotent ==
    op = "rerun" => outline2 = outline

SameOrder(a, b) ==
    /\ Len(a) = Len(b)
    /\ \A k \in DOMAIN a : a[k].text = b[k].text /\ a[k].page = b[k].page

\* C5 amended: the second run always keeps the entry order, and it returns
\* the same levels whenever the first run had at most 50 candidates, so that
\* the cap dropped none of them.
C5_IdempotentUnderCap ==
    op = "rerun" =>
        /\ SameOrder(outline2, outline)
        /\ OriginOrder(Reattach(outline, given)) = [k \in DOMAIN outline |-> k]
        /\ Len(given) <= MaxHeadings => outline2 = outline

\* exactly 50 candidates, out of page order, with all three levels, re-run
C5_Witness ==
    /\ op = "rerun"
    /\ Len(given) = MaxHeadings
    /\ ~PagesAscending(given)
    /\ LevelsIn(outline2) = Levels

-----------------------------------------------------------------------------
(* Properties of _create_refined_text *)

EndsWithEllipsis(r) ==
    Len(r) >= 3 /\ SubSeq(r, Len(r) - 2, Len(r)) = Ellipsis

\* C8: the summary has at most 300 characters before the ellipsis, so never
\* more than 303 in all, and it ends with "..." only when it was cut to 300.
C8_SummaryBounded ==
    op = "summary" =>
        /\ Len(refined) <= MaxRefinedLen + 3
        /\ ~EndsWithEllipsis(refined) => Len(refined) <= MaxRefinedLen
        /\ EndsWithEllipsis(refined) => Len(refined) = MaxRefinedLen + 3

\* a content of more than 300 usable characters was cut and marked
C8_Witness ==
    /\ op = "summary"
    /\ Len(content) > MaxRefinedLen
    /\ Len(refined) = MaxRefinedLen + 3
    /\ EndsWithEllipsis(refined)

\* C9 as stated: the summary is empty if and only if the content is empty.
C9_EmptyIffEmptyContent ==
    op = "summary" => (refined = <<>> <=> content = <<>>)

\* some piece among the first two is longer than 20 once trimmed, or some
\* piece among the first five is and mentions the persona or the job
HasUsablePiece(c, p, j) ==
    LET pieces == SplitDots(c)
    IN  \E k \in 1..Min(SentenceWindow, Len(pieces)) :
            /\ Len(Strip(pieces[k])) > MinSentenceLen
            /\ \/ k <= FallbackWindow
               \/ Contains(Lower(p), Lower(pieces[k]))
               \/ Contains(Lower(j), Lower(pieces[k]))

\* C9 amended: an empty content gives an empty summary, and a non-empty
\* content gives a non-empty summary exactly when one of its first two
\* pieces is longer than 20 characters trimmed, or one of its first five is
\* and mentions the persona or the job; otherwise the summary is empty.
C9_EmptyIffNothingUsable ==
    op = "summary" =>
        /\ content = <<>> => refined = <<>>
        /\ refined # <<>> <=>
              (content # <<>> /\ HasUsablePiece(content, persona, job_to_be_done))

\* a content of more than 20 characters whose summary is empty
C9_Witness ==
    /\ op = "summary"
    /\ Len(content) > MinSentenceLen
    /\ refined = <<>>

-----------------------------------------------------------------------------
(* The pieces a summary is made of *)

ContentPieces == SplitDots(content)

\* the first five pieces of a content, trimmed
FirstFiveTrimmed(pieces) == [k \in 1..Min(5, Len(pieces)) |-> Strip(pieces[k])]

\* positions among the first five whose piece, trimmed, has more than 20
\* characters and holds the persona or the job, whatever the case
Qualifying(trimmed) ==
    {k \in DOMAIN trimmed :
        /\ Len(trimmed[k]) > 20
        /\ \/ Contains(Lower(persona), Lower(trimmed[k]))
           \/ Contains(Lower(job_to_be_done), Lower(trimmed[k]))}

\* positions among the first two whose piece, trimmed, has more than 20 characters
FirstTwoLong(trimmed) == {k \in DOMAIN trimmed : k <= 2 /\ Len(trimmed[k]) > 20}

KeptPositions(trimmed) ==
    LET qualifying == Qualifying(trimmed)
    IN  IF qualifying # {} THEN qualifying ELSE FirstTwoLong(trimmed)

\* the lowest n positions of a set, in ascending order
RECURSIVE Lowest(_, _)
Lowest(S, n) ==
    IF S = {} \/ n = 0 THEN <<>>
    ELSE LET m == MinOf(S) IN <<m>> \o Lowest(S \ {m}, n - 1)

\* C21: on a non-empty content the summary is made of the pieces, trimmed,
\* at up to three positions in ascending order, joined with ". " (and cut to
\* 300 characters plus "..." when longer): the positions among the first
\* five whose piece is longer than 20 and names the persona or the job, or,
\* only when there is none, those among the first two whose piece is longer
\* than 20; so every position used is at most five.
C21_SummaryFromFirstFive ==
    (op = "summary" /\ content # <<>>) =>
        LET trimmed   == FirstFiveTrimmed(ContentPieces)
            positions == Lowest(KeptPositions(trimmed), 3)
            joined    == Join([i \in DOMAIN positions |-> trimmed[positions[i]]],
                              <<".", " ">>)
        IN  /\ refined = IF Len(joined) > 300
                         THEN SubSeq(joined, 1, 300) \o <<".", ".", ".">>
                         ELSE joined
            /\ Len(positions) <= 3
            /\ \A i \in DOMAIN positions : positions[i] <= 5

\* a content whose first five pieces do not qualify and whose sixth names
\* the job: the summary is the fallback and leaves the sixth piece out
C21_Witness ==
    /\ op = "summary"
    /\ LET pieces  == ContentPieces
           trimmed == FirstFiveTrimmed(pieces)
       IN  /\ Len(pieces) > 5
           /\ Qualifying(trimmed) = {}
           /\ Len(Strip(pieces[6])) > 20
           /\ Contains(Lower(job_to_be_done), Lower(pieces[6]))
           /\ FirstTwoLong(trimmed) # {}
           /\ refined # <<>>
           /\ ~Contains(Strip(pieces[6]), refined)

\* a content with more than three qualifying pieces among the first five:
\* the summary holds the first three of them
C21_CapWitness ==
    /\ op = "summary"
    /\ LET trimmed == FirstFiveTrimmed(ContentPieces)
       IN  /\ Cardinality(Qualifying(trimmed)) > 3
           /\ refined = Join([i \in 1..3 |-> trimmed[Lowest(Qualifying(trimmed), 3)[i]]],
                             <<".", " ">>)

-----------------------------------------------------------------------------
(* Properties of _calculate_keyword_relevance *)

QueryKeywords == ToSet(extract_keywords(nlp, Lower(query)))
TextKeywords == ToSet(extract_keywords(nlp, Lower(text)))

\* C10: the score is |Q n T| / |Q u T| for the keyword sets Q of the query
\* and T of the text, so it lies in [0, 1]; it is 0.0 when the sets are
\* disjoint, when the query has no keywords, and when either string or
\* either keyword set is empty.
C10_JaccardOfKeywordSets ==
    op = "keyword" =>
        /\ relevance[2] > 0
        /\ 0 <= relevance[1] /\ relevance[1] <= relevance[2]
        /\ QueryKeywords \cup TextKeywords # {} =>
              relevance[1] * Cardinality(QueryKeywords \cup TextKeywords)
                  = relevance[2] * Cardinality(QueryKeywords \cap TextKeywords)
        /\ (\/ QueryKeywords \cap TextKeywords = {}
            \/ QueryKeywords = {}
            \/ TextKeywords = {}
            \/ query = <<>>
            \/ text = <<>>) => relevance = Zero

\* the keyword sets overlap in part: a score strictly between 0 and 1
C10_Witness ==
    /\ op = "keyword"
    /\ QueryKeywords \ TextKeywords # {}
    /\ TextKeywords \ QueryKeywords # {}
    /\ 0 < relevance[1] /\ relevance[1] < relevance[2]

-----------------------------------------------------------------------------
(* Properties of _rank_sections_by_relevance *)

\* a scored section without its score
Unscored(e) ==
    [document |-> e.document, page |-> e.page, title |-> e.title,
     content |-> e.content, heading_level |-> e.heading_level]

\* scored section i goes before scored section j: a larger score, or the
\* same score and an earlier place in the input
RanksBefore(sc, i, j) ==
    \/ Less(sc[j].relevance_score, sc[i].relevance_score)
    \/ sc[i].relevance_score = sc[j].relevance_score /\ i < j

\* the scored section that has exactly k - 1 sections before it
ScoreSourceOf(sc, k) ==
    CHOOSE i \in DOMAIN sc :
        Cardinality({j \in DOMAIN sc : RanksBefore(sc, j, i)}) = k - 1

\* C6: the ranking is a permutation of the input sections, each with a
\* relevance_score added; scores never increase from first to last; sections
\* of equal score keep their input order.
C6_StablePermutationByScore ==
    op = "rank" =>
        /\ Len(scored) = Len(sections)
        /\ \A i \in DOMAIN sections :
              /\ Unscored(scored[i]) = sections[i]
              /\ DOMAIN scored[i] = DOMAIN sections[i] \cup {"relevance_score"}
        /\ Len(ranked) = Len(sections)
        /\ \A k \in DOMAIN ranked : ranked[k] = scored[ScoreSourceOf(scored, k)]
        /\ \A k \in 1..(Len(ranked) - 1) :
              ~Less(ranked[k].relevance_score, ranked[k + 1].relevance_score)

\* two different sections of one score, and a section that moved ahead of
\* an earlier one with a smaller score
C6_Witness ==
    /\ op = "rank"
    /\ \E i, j \in DOMAIN scored :
          /\ i < j
          /\ scored[i].relevance_score = scored[j].relevance_score
          /\ Unscored(scored[i]) # Unscored(scored[j])
    /\ \E i, j \in DOMAIN scored :
          i < j /\ Less(scored[i].relevance_score, scored[j].relevance_score)
    /\ ranked # scored

-----------------------------------------------------------------------------
(* Properties of extract_relevant_sections *)

\* C7: extracted_sections is the first min(20, n) of the n ranked sections
\* in rank order, entry i (from 0) having importance_rank i + 1, and
\* sub_section_analysis has min(10, n) entries made from the first
\* min(10, n) ranked sections.
C7_TopTwentyAndTopTen ==
    op = "extract" =>
        LET es == result.extracted_sections
            sa == result.sub_section_analysis
        IN  /\ Len(es) = Min(TopSections, Len(ranked))
            /\ \A k \in DOMAIN es :
                  /\ es[k].document = ranked[k].document
                  /\ es[k].page = ranked[k].page
                  /\ es[k].section_title = ranked[k].title
                  /\ es[k].importance_rank = k
            /\ {es[k].importance_rank : k \in DOMAIN es} = 1..Len(es)
            /\ Len(sa) = Min(TopAnalysis, Len(ranked))
            /\ \A k \in DOMAIN sa :
                  /\ sa[k].document = ranked[k].document
                  /\ sa[k].page = ranked[k].page
                  /\ sa[k].refined_text =
                        create_refined_text(ranked[k].content, persona, job_to_be_done)

\* more than 20 sections were ranked, not all with one score, and cut to
\* 20 and to 10
C7_Witness ==
    /\ op = "extract"
    /\ Len(ranked) > TopSections
    /\ ranked # scored
    /\ Len(result.extracted_sections) = TopSections
    /\ Len(result.sub_section_analysis) = TopAnalysis

-----------------------------------------------------------------------------
(* Keyword relevance of a string with itself *)

\* the string has a token that extract_keywords keeps
HasKeyword(s) ==
    \E k \in DOMAIN Tokens(s) :
        LET w == Tokens(s)[k]
        IN  IsAlpha(w) /\ ~IsStop(w) /\ Len(w) > MinTokenLen

One == <<1, 1>>

\* C11 as stated: for every non-empty string s,
\* _calculate_keyword_relevance(s, s) is exactly 1.0.
C11_SelfRelevanceIsOne ==
    (op = "keyword" /\ query = text /\ query # <<>>) => relevance = One

\* C11 as amended: for a non-empty string s, _calculate_keyword_relevance(s, s)
\* is exactly 1.0 when the language pipeline is loaded and s has at least one
\* keyword (an alphabetic token of more than 2 characters that is not a stop
\* word), and exactly 0.0 otherwise.
C11_SelfRelevanceOneIffKeyword ==
    (op = "keyword" /\ query = text /\ query # <<>>) =>
        relevance = IF nlp /\ HasKeyword(Lower(query)) THEN One ELSE Zero

\* a text with more keywords than extract_keywords returns, scored against
\* itself
C11_Witness ==
    /\ op = "keyword"
    /\ query = text
    /\ nlp
    /\ Len(KeywordList(Lower(query))) > MaxKeywords
    /\ relevance = One

-----------------------------------------------------------------------------
(* The score of is_likely_heading *)

\* the total of the five signals for a non-empty text (a ratio of 1 stands
\* in for font_size / avg_font_size when the average is not positive)
SignalScore(t, size, avg) ==
    LET trimmed == Strip(t)
        larger  == avg[1] > 0 /\ 10 * size * avg[2] > 11 * avg[1]
        colon   == trimmed # <<>> /\ trimmed[Len(trimmed)] = ":"
        pattern == \/ MatchesNumbered(trimmed)
                   \/ MatchesCapitals(trimmed)
                   \/ MatchesWordNumber(trimmed)
    IN  (IF larger THEN 2 ELSE 0)
      + (IF Len(t) < 100 THEN 1 ELSE 0)
      + (IF IsUpper(t) \/ IsTitle(t) THEN 1 ELSE 0)
      + (IF colon THEN 1 ELSE 0)
      + (IF pattern THEN 2 ELSE 0)

\* C12 as stated: is_likely_heading accepts a span if and only if its total
\* score is at least 3 (+2 larger font, +1 under 100 characters, +1 upper or
\* title case, +1 trailing colon, +2 heading pattern).
\* (Checked on the texts the parser can deliver: non-empty and trimmed.)
C12_AcceptedIffScoreThree ==
    (op = "classify" /\ span.text # <<>> /\ Strip(span.text) = span.text) =>
        (likely <=> SignalScore(span.text, span.font_size, average) >= 3)

\* C12 as amended: a span whose trimmed text has fewer than 3 characters is
\* rejected whatever its score; any other span is accepted if and only if
\* its total score is at least 3.
C12_AcceptedIffLongEnoughAndScoreThree ==
    op = "classify" =>
        (likely <=> /\ Len(Strip(span.text)) >= 3
                    /\ SignalScore(span.text, span.font_size, average) >= 3)

\* a span accepted on exactly 3 points, its font at 1.1 times the average
\* and so not counted as larger
C12_Witness ==
    /\ op = "classify"
    /\ likely
    /\ SignalScore(span.text, span.font_size, average) = 3
    /\ 10 * span.font_size * average[2] = 11 * average[1]

-----------------------------------------------------------------------------
(* Heading candidates and the length of their cleaned text *)

\* C13: the span classifier rejects every span whose cleaned text (the result
\* of clean_text) has fewer than 3 characters; no heading candidate and no
\* section title produced from a candidate has a cleaned text shorter than 3
\* characters.
C13_NoShortCleanedHeading ==
    op = "segment" =>
        /\ \A k \in DOMAIN the_headings : Len(the_headings[k].text) >= 3
        /\ \A k \in DOMAIN the_sections :
              the_sections[k].heading_level # "content"
                  => Len(the_sections[k].title) >= 3

-----------------------------------------------------------------------------
(* Pages without headings *)

\* n in decimal, for n up to 99
Decimal(n) ==
    IF n < 10 THEN <<DigitChar(n)>> ELSE <<DigitChar(n \div 10), DigitChar(n % 10)>>

HasVisibleText(s) == \E i \in DOMAIN s : s[i] \notin Whitespace

\* C14: a page on which no span is accepted as a heading yields exactly one
\* section titled "Page {n}" with the full page text as content and
\* heading_level "content" when the page text has a non-whitespace
\* character, and no section when the page text is empty or whitespace-only.
C14_WholePageSection ==
    (op = "segment" /\ the_headings = <<>>) =>
        IF HasVisibleText(the_page.plain)
        THEN /\ Len(the_sections) = 1
             /\ the_sections[1].title
                    = <<"P", "a", "g", "e", " ">> \o Decimal(the_page_num + 1)
             /\ the_sections[1].content = the_page.plain
             /\ the_sections[1].heading_level = "content"
        ELSE the_sections = <<>>

\* the tenth page, all of its spans rejected, becomes the section "Page 10"
C14_Witness ==
    /\ op = "segment"
    /\ the_headings = <<>>
    /\ the_page.spans # <<>>
    /\ the_page_num = 9
    /\ Len(the_sections) = 1
    /\ the_sections[1].title = <<"P", "a", "g", "e", " ", "1", "0">>
    /\ the_sections[1].content = the_page.plain

\* a page with only a blank span yields no section
C14_BlankWitness ==
    /\ op = "segment"
    /\ the_page.spans # <<>>
    /\ ~HasVisibleText(the_page.plain)
    /\ the_sections = <<>>

-----------------------------------------------------------------------------
(* Pages with headings *)

\* the non-blank spans of the page, trimmed, that the classifier accepts
\* against the average font size of the page's non-blank spans
AcceptedSpans ==
    LET items == FormattedText(the_page)
        total == SumFontSizes(items)
    IN  SelectSeq(items, LAMBDA item :
                      is_likely_heading(item.text, item.font_size, <<total, Len(items)>>))

\* C22: a page with at least one accepted span yields exactly one section
\* per accepted span, in span order, titled with the span's cleaned text and
\* with heading_level "H2", and no whole-page section.
C22_OneSectionPerHeading ==
    (op = "segment" /\ AcceptedSpans # <<>>) =>
        /\ Len(the_sections) = Len(AcceptedSpans)
        /\ \A k \in DOMAIN the_sections :
              /\ the_sections[k].title = clean_text(AcceptedSpans[k].text)
              /\ the_sections[k].heading_level = "H2"
              /\ the_sections[k].heading_level # "content"

\* a page with two accepted spans of different texts, the second of which
\* is changed by cleaning: two sections in span order
C22_Witness ==
    /\ op = "segment"
    /\ Len(AcceptedSpans) = 2
    /\ Len(the_sections) = 2
    /\ the_sections[1].title = AcceptedSpans[1].text
    /\ the_sections[2].title # AcceptedSpans[2].text
    /\ the_sections[2].title = clean_text(AcceptedSpans[2].text)
    /\ the_sections[1].title # the_sections[2].title

-----------------------------------------------------------------------------
(* The processor's document between calls *)

\* C23: the processor holds no document but the one of the call in
\* progress, and whenever extract_outline or _extract_document_sections has
\* returned or raised, after a failed load, an error or a success, its
\* document is closed and unset, so that the next call starts without one.
C23_ClosedBetweenDocuments ==
    /\ stage = "loaded" => doc = FileName(CurrentFile)
    /\ stage \in {"idle", "returned", "raised"} => doc = "none"

-----------------------------------------------------------------------------
(* The content window of a section *)

\* the lines of the page text, as split at its line breaks
PageLines == SplitFrom(the_page_text, 1,
                       {i \in DOMAIN the_page_text : the_page_text[i] = "\n"})

\* line i holds the heading text, upper and lower case taken as equal
HoldsHeading(i) == Contains(Lower(the_heading), Lower(PageLines[i]))

\* lines a..b of the page joined with single blanks
JoinedLines(a, b) ==
    IF a > b THEN <<>> ELSE Join([i \in 1..(b - a + 1) |-> PageLines[a + i - 1]], <<" ">>)

\* C15: when a first line holding the heading exists, at index k, the content
\* is lines k+1 .. k+10 (fewer when the page ends sooner, never line k)
\* joined with single spaces and trimmed; when no line matches, the content
\* is the first 10 lines of the page joined with single spaces.
C15_ContentWindow ==
    op = "content" =>
        IF \E i \in DOMAIN PageLines : HoldsHeading(i)
        THEN \E k \in DOMAIN PageLines :
                /\ HoldsHeading(k)
                /\ \A i \in 1..(k - 1) : ~HoldsHeading(i)
                /\ the_content
                      = Strip(JoinedLines(k + 1, Min(k + 10, Len(PageLines))))
        ELSE the_content = JoinedLines(1, Min(10, Len(PageLines)))

\* the heading is found on a line that more than 10 lines follow, and the
\* content is the 10 lines after it
C15_Witness ==
    /\ op = "content"
    /\ \E k \in DOMAIN PageLines :
          /\ HoldsHeading(k)
          /\ \A i \in 1..(k - 1) : ~HoldsHeading(i)
          /\ Len(PageLines) > k + 10
          /\ the_content = JoinedLines(k + 1, k + 10)
          /\ the_content # <<>>

\* no line holds the heading on a page of more than 10 lines
C15_MissWitness ==
    /\ op = "content"
    /\ \A i \in DOMAIN PageLines : ~HoldsHeading(i)
    /\ Len(PageLines) > 10
    /\ the_content = JoinedLines(1, 10)

-----------------------------------------------------------------------------
(* Round 1B: one failing document *)

\* the sections of the documents that load and whose pages can all be read
SectionsOfReadable(files) ==
    Flatten([i \in DOMAIN files |->
                IF files[i].loadable /\ ~PageReadRaises(files[i])
                THEN extract_document_sections(files[i])
                ELSE <<>>])

\* C17: in Round 1B a failure while one document is processed, whether it
\* cannot be loaded or an error is raised while its pages are read, only
\* skips that document: the result ranked from the remaining documents is
\* still produced; a failing document never leaves the batch without a
\* result.
C17_FailingDocumentOnlySkipped ==
    op # "init" =>
        /\ result # NoResult
        /\ sections = SectionsOfReadable(pdf_files)
        /\ Len(result.extracted_sections) = Min(Len(sections), TopSections)

-----------------------------------------------------------------------------
(* Round 1A: the batch loop *)

\* loading, extraction and saving all succeed for the document
Completes(f) ==
    /\ f.loadable
    /\ f.broken \notin DOMAIN f.pages
    /\ f.stem \notin unwritable

\* C16: in run_round1a every PDF of the input list is attempted exactly once,
\* in list order, whatever happened to the documents before it: a document
\* whose loading, extraction or saving fails gets no completed output and is
\* not retried, and every later document is still processed and saved.
\* the files the loop has gone through were each attempted once, in list
\* order, and exactly those that completed have an output, in list order
AttemptedInOrder ==
    /\ position <= Len(pdf_files)
    /\ attempted = [k \in 1..position |-> pdf_files[k].name]
    /\ LET done == SelectSeq(SubSeq(pdf_files, 1, position), Completes)
       IN  [k \in DOMAIN saved |-> saved[k].file] = [k \in DOMAIN done |-> done[k].stem]

C16_EveryPdfAttemptedOnce ==
    /\ []AttemptedInOrder
    /\ <>(position = Len(pdf_files))

\* the loop has ended; the first document failed and the second was saved
C16_Witness ==
    /\ op = "round1a"
    /\ position = Len(pdf_files)
    /\ Len(pdf_files) = 2
    /\ ~Completes(pdf_files[1])
    /\ attempted = <<pdf_files[1].name, pdf_files[2].name>>
    /\ Len(saved) = 1
    /\ saved[1].file = pdf_files[2].stem

-----------------------------------------------------------------------------
(* Round 1A: the title *)

\* the input file an output file was written for
SourceFile(out) == CHOOSE f \in {pdf_files[i] : i \in DOMAIN pdf_files} : f.stem = out.file

\* the non-blank spans of page 1, trimmed
TitleSpans(f) ==
    IF f.pages = <<>> THEN <<>>
    ELSE SelectSeq([i \in DOMAIN f.pages[1].spans |->
                       [text      |-> Strip(f.pages[1].spans[i].text),
                        font_size |-> f.pages[1].spans[i].font_size]],
                   LAMBDA sp : sp.text # <<>>)

\* the title is the text of the first span of the largest size, followed by
\* a blank and the text of the second such span when there is one
IsLargestSpansTitle(title, sp) ==
    LET largest == {i \in DOMAIN sp : \A j \in DOMAIN sp : sp[j].font_size <= sp[i].font_size}
        first   == CHOOSE i \in largest : \A j \in largest : i <= j
        others  == largest \ {first}
    IN  IF others = {} THEN title = sp[first].text
        ELSE LET second == CHOOSE i \in others : \A j \in others : i <= j
             IN  title = sp[first].text \o <<" ">> \o sp[second].text

\* C19 as stated: the title of an outline result is the first two largest
\* spans of page 1 joined by a space; if no span qualifies, the first span of
\* page 1 longer than 10 characters; and otherwise "Untitled Document".
C19_TitleByThreeRules ==
    \A k \in DOMAIN saved :
        LET sp    == TitleSpans(SourceFile(saved[k]))
            title == saved[k].result.title
        IN  IF sp # <<>> THEN IsLargestSpansTitle(title, sp)
            ELSE title = UntitledDocument

\* C19 as amended: when page 1 has a non-blank span the title is the first
\* two largest spans of page 1 joined by a space; when it has none (or the
\* document has no page) the title is the stem of the file name.
C19_TitleByLargestSpansOrStem ==
    \A k \in DOMAIN saved :
        LET sp    == TitleSpans(SourceFile(saved[k]))
            title == saved[k].result.title
        IN  IF sp # <<>> THEN IsLargestSpansTitle(title, sp)
            ELSE title = SourceFile(saved[k]).stem

\* an outline was saved for a document with three spans of the largest size
\* on page 1: its title is the first two of them
C19_Witness ==
    \E k \in DOMAIN saved :
        LET sp == TitleSpans(SourceFile(saved[k]))
        IN  /\ Cardinality({i \in DOMAIN sp : sp[i].font_size = HeadFont}) = 3
            /\ sp[1].font_size = BodyFont
            /\ saved[k].result.title = sp[2].text \o <<" ">> \o sp[3].text

-----------------------------------------------------------------------------
(* Page numbers *)

\* C20: every outline entry produced by _extract_headings and every section
\* produced by _extract_document_sections carries page = (zero-based index of
\* the source page) + 1, so page numbers lie in 1..page_count and a
\* "Page {n}" title uses the same n as its page field.
C20_PagesOneBased ==
    /\ op = "segment" =>
          \A k \in DOMAIN the_sections :
              /\ the_sections[k].page = the_page_num + 1
              /\ the_sections[k].heading_level = "content" =>
                    the_sections[k].title
                        = <<"P", "a", "g", "e", " ">> \o Decimal(the_sections[k].page)
    /\ op = "round1a" =>
          \A k \in DOMAIN saved :
              LET f == SourceFile(saved[k])
                  entries == saved[k].result.outline
              IN  \A e \in DOMAIN entries :
                      /\ entries[e].page \in 1..Len(f.pages)
                      /\ \E i \in DOMAIN f.pages[entries[e].page].spans :
                            clean_text(Strip(f.pages[entries[e].page].spans[i].text))
                                = entries[e].text

\* an outline with entries on its third page only has been saved
C20_Witness ==
    /\ op = "round1a"
    /\ \E k \in DOMAIN saved :
          /\ saved[k].result.outline # <<>>
          /\ \A e \in DOMAIN saved[k].result.outline :
                saved[k].result.outline[e].page = 3

\* a section of the eleventh page of a document carries page 11
C20_SectionWitness ==
    /\ op = "segment"
    /\ the_page_num = 10
    /\ Len(the_sections) = 2
    /\ \A k \in DOMAIN the_sections : the_sections[k].page = 11

-----------------------------------------------------------------------------
(* Failure of the embedding backend *)

\* the text a section is scored on (line 200)
CombinedText(section) == section.title \o <<" ">> \o section.content

\* C18: when the embedding backend fails during _calculate_semantic_relevance
\* that call returns exactly _calculate_keyword_relevance(query, text) for the
\* same arguments, and sentence_model is left unchanged, so that the next
\* scoring call uses the embedding strategy again.
C18_KeywordFallbackForThatCall ==
    [][(op' = "rank" /\ sentence_model = "loaded") =>
          /\ sentence_model' = "loaded"
          /\ Len(encoded') = Len(sections)
          /\ \A i \in DOMAIN sections :
                scored'[i].relevance_score =
                    IF encoded'[i].ok THEN encoded'[i].value
                    ELSE calculate_keyword_relevance(
                             nlp, Query(persona, job_to_be_done),
                             CombinedText(sections[i]))]_vars

\* a call that failed got a keyword score that no cosine of the model
\* equals, and the call after it got its cosine
C18_Witness ==
    /\ op = "rank"
    /\ sentence_model = "loaded"
    /\ \E i \in DOMAIN encoded :
          /\ i + 1 \in DOMAIN encoded
          /\ ~encoded[i].ok
          /\ scored[i].relevance_score \notin Cosines \cup {Zero}
          /\ encoded[i + 1].ok
          /\ scored[i + 1].relevance_score = encoded[i + 1].value

-----------------------------------------------------------------------------
(* The input of the ranking *)

\* C24: _rank_sections_by_relevance leaves its input as it was: the list
\* keeps its length and order, and no section of it gains a relevance_score
\* field or has a field changed.
C24_InputUnchanged ==
    [][op' = "rank" =>
          /\ Len(sections') = Len(sections)
          /\ \A i \in DOMAIN sections :
                /\ DOMAIN sections'[i] = DOMAIN sections[i]
                /\ "relevance_score" \notin DOMAIN sections'[i]
                /\ sections'[i] = sections[i]]_vars

\* a ranking that scored and reordered copies: the returned list starts
\* with another section than the input, whose entries have no score
C24_Witness ==
    /\ op = "rank"
    /\ Len(sections) > 1
    /\ Len(ranked) = Len(sections)
    /\ Unscored(ranked[1]) # sections[1]
    /\ Unscored(ranked[1]) = sections[Len(sections)]
    /\ \A i \in DOMAIN ranked : "relevance_score" \in DOMAIN ranked[i]
    /\ \A i \in DOMAIN sections : "relevance_score" \notin DOMAIN sections[i]

-----------------------------------------------------------------------------
(* The two lists of a result *)

\* C25: in every result sub_section_analysis is not longer than
\* extracted_sections, and its entry at each index has the document and the
\* page of the entry of extracted_sections at that index.
C25_AnalysisAligned ==
    op = "extract" =>
        /\ Len(result.sub_section_analysis) <= Len(result.extracted_sections)
        /\ \A i \in DOMAIN result.sub_section_analysis :
              /\ result.sub_section_analysis[i].document
                    = result.extracted_sections[i].document
              /\ result.sub_section_analysis[i].page
                    = result.extracted_sections[i].page

\* a result with more extracted sections than analysed ones, from two
\* documents and several pages, ranked in another order than extracted,
\* with an empty refined text before a non-empty one
C25_Witness ==
    /\ op = "extract"
    /\ Len(result.sub_section_analysis) < Len(result.extracted_sections)
    /\ \E i, j \in DOMAIN result.sub_section_analysis :
          /\ i < j
          /\ result.sub_section_analysis[i].document
                # result.sub_section_analysis[j].document
          /\ result.sub_section_analysis[i].page > result.sub_section_analysis[j].page
          /\ result.sub_section_analysis[i].refined_text = <<>>
          /\ result.sub_section_analysis[j].refined_text # <<>>
    /\ ranked # scored

-----------------------------------------------------------------------------
(* Levels and the cap *)

\* the candidates the returned entries were built from
KeptCandidates == {SourceOf(given, k) : k \in DOMAIN outline}

LargestSize == CHOOSE f \in {given[i].font_size : i \in DOMAIN given} :
                   \A i \in DOMAIN given : given[i].font_size <= f

\* C26: the level of every returned entry is the one the size ranking over
\* all candidates gives it, those beyond the first 50 in page order
\* included, so the cap changes no level: when every candidate of the
\* largest size is dropped, no returned entry is H1.
C26_LevelsSetBeforeCap ==
    (op = "refine" /\ given # <<>>) =>
        /\ \A k \in DOMAIN outline :
              outline[k].level = RankLevel(given, SourceOf(given, k))
        /\ (\A i \in KeptCandidates : given[i].font_size # LargestSize) =>
              "H1" \notin LevelsIn(outline)

\* more than 50 candidates, the only ones of the two largest sizes dropped
\* by the cap: the 50 returned entries are all H3
C26_Witness ==
    /\ op = "refine"
    /\ Len(given) > MaxHeadings
    /\ Len(outline) = MaxHeadings
    /\ \A i \in KeptCandidates : given[i].font_size # LargestSize
    /\ Cardinality({given[i].font_size : i \in DOMAIN given}) = 3
    /\ Cardinality({given[i].font_size : i \in KeptCandidates}) = 1
    /\ LevelsIn(outline) = {"H3"}

-----------------------------------------------------------------------------
(* The documents of a result *)

DocumentsListed == {result.metadata.documents[i] : i \in DOMAIN result.metadata.documents}

\* C27: in every result metadata.documents has one entry per input file,
\* its file name, in input order (so each file of a directory once),
\* whether or not the file could be loaded or gave a section; every
\* document named in extracted_sections or sub_section_analysis is listed;
\* and a result made from no section at all has both lists empty.
C27_EveryInputListed ==
    op = "extract" =>
        /\ result # NoResult
        /\ Len(result.metadata.documents) = Len(pdf_files)
        /\ \A i \in DOMAIN pdf_files :
              result.metadata.documents[i] = FileName(pdf_files[i])
        /\ (\A i, j \in DOMAIN pdf_files : i # j => pdf_files[i] # pdf_files[j]) =>
              \A i, j \in DOMAIN pdf_files :
                  i # j => result.metadata.documents[i] # result.metadata.documents[j]
        /\ \A k \in DOMAIN result.extracted_sections :
              result.extracted_sections[k].document \in DocumentsListed
        /\ \A k \in DOMAIN result.sub_section_analysis :
              result.sub_section_analysis[k].document \in DocumentsListed
        /\ sections = <<>> =>
              /\ result.extracted_sections = <<>>
              /\ result.sub_section_analysis = <<>>

\* a document that cannot be loaded and one with a blank page only: a
\* result naming both, with both lists empty
C27_Witness ==
    /\ op = "extract"
    /\ Len(pdf_files) = 2
    /\ ~pdf_files[1].loadable
    /\ pdf_files[2].loadable
    /\ result.metadata.documents = <<FileName(pdf_files[1]), FileName(pdf_files[2])>>
    /\ result.extracted_sections = <<>>
    /\ result.sub_section_analysis = <<>>

\* a result with sections of one document only, naming the other as well
C27_SilentWitness ==
    /\ op = "extract"
    /\ Len(pdf_files) = 2
    /\ result.extracted_sections # <<>>
    /\ \E i \in DOMAIN pdf_files :
          \A k \in DOMAIN result.extracted_sections :
              result.extracted_sections[k].document # FileName(pdf_files[i])
    /\ Cardinality(DocumentsListed) = 2

=============================================================================
